---- MODULE Spec2Model ----
(***************************************************************************)
(* Model of the PineTime sleep tracker's device communication and session  *)
(* core: src/src/utils/BluetoothManager.ts (ensurePineTime,                *)
(* discoverCharacteristics, saveSensorData, enableAccelerometer,           *)
(* attemptReconnection, startCollection and its timers / monitors /        *)
(* cleanup) and the two callers in src/src/screens/HomeScreen.tsx          *)
(* (startCollectionForUser, stopDataCollection).                           *)
(*                                                                         *)
(* JavaScript runs the callbacks on one event loop: an action of this      *)
(* model is one run-to-completion segment of a callback, from its start or *)
(* from the resumption of an await to the next await or the return.        *)
(***************************************************************************)
EXTENDS Integers, Sequences, FiniteSets, TLC

(***************************************************************************)
(* Bounds of the model                                                     *)
(***************************************************************************)
\* clock ticks the model lets pass (Date.now() advances from Epoch)
MaxTime == 3
\* rows of sleep_records the store accepts (createSleepRecord calls that succeed)
MaxRecords == 2
\* calls of one timer callback that may be awaiting I/O at the same time
MaxInFlight == 1
\* calls of attemptReconnection that may be in progress at the same time
MaxTasks == 1
\* rows of raw_sensor_data per sensor_type the model keeps in view (the newest)
RowWindow == 1
\* calls of stopDataCollection
MaxStops == 2
\* value up to which the model follows consecutiveErrors
MaxErrors == 4

(***************************************************************************)
(* Program constants                                                       *)
(***************************************************************************)
MAX_RETRY_ATTEMPTS == 5
MAX_CONSECUTIVE_ERRORS == 3
MAX_STALE_DATA == 5

\* JavaScript's undefined and null, where an object may stand
Undefined == [undefined |-> TRUE]

Null == [null |-> TRUE]

(***************************************************************************)
(* UUID strings.  A UUID is its lower-case text (head: the first group,    *)
(* tail: the last four characters) and whether the device reports it in    *)
(* upper case; toLowerCase() drops that.                                   *)
(***************************************************************************)
Uuid(head, tail, upper) == [head |-> head, tail |-> tail, upper |-> upper]

ToLowerCase(u) == [u EXCEPT !.upper = FALSE]

EndsWith(u, suffix) == (~u.upper) /\ u.tail = suffix

MOTION_SERVICE_UUID == Uuid("00030000", "42d0", FALSE)
ACCEL_CHAR_UUID     == Uuid("00030001", "42d0", FALSE)
HR_SERVICE_UUID     == Uuid("0000180d", "34fb", FALSE)
HR_CHAR_UUID        == Uuid("00002a37", "34fb", FALSE)

(***************************************************************************)
(* Array.prototype.find: the first element satisfying P, else undefined    *)
(***************************************************************************)
Find(seq, P(_)) ==
  IF \E i \in 1..Len(seq) : P(seq[i])
  THEN seq[CHOOSE i \in 1..Len(seq) : P(seq[i]) /\ \A j \in 1..(i-1) : ~P(seq[j])]
  ELSE Undefined

(***************************************************************************)
(* The peripheral's GATT table: a sequence of services, each with its      *)
(* characteristics.  Char(uuid, wr, wnr) is one characteristic.            *)
(***************************************************************************)
Char(uuid, wr, wnr) ==
  [uuid |-> uuid, isWritableWithResponse |-> wr, isWritableWithoutResponse |-> wnr]

Service(uuid, chars) == [uuid |-> uuid, characteristics |-> chars]

Up(u, upper) == [u EXCEPT !.upper = upper]

\* the characteristics a motion service may carry next to the data one
CtlChars(kind, upper) ==
  CASE kind = "none"     -> << >>
    [] kind = "3002"     -> << Char(Uuid("0003aaaa", "3002", upper), TRUE, FALSE) >>
    [] kind = "3003wnr"  -> << Char(Uuid("0003aaab", "3003", upper), FALSE, TRUE) >>
    [] kind = "sibling"  -> << Char(Uuid("00030002", "42d0", upper), TRUE, TRUE) >>
    [] kind = "readonly" -> << Char(Uuid("0003aaac", "3004", upper), FALSE, FALSE) >>
    [] kind = "sibling+3002" ->
         << Char(Uuid("00030002", "42d0", upper), TRUE, TRUE),
            Char(Uuid("0003aaaa", "3002", upper), TRUE, FALSE) >>
    [] kind = "readonly+3003wnr" ->
         << Char(Uuid("0003aaac", "3004", upper), FALSE, FALSE),
            Char(Uuid("0003aaab", "3003", upper), FALSE, TRUE) >>
    [] kind = "3003wnr+3002" ->
         << Char(Uuid("0003aaab", "3003", upper), FALSE, TRUE),
            Char(Uuid("0003aaaa", "3002", upper), TRUE, FALSE) >>

CtlKinds == {"none", "3002", "3003wnr", "sibling", "readonly"}

\* two characteristics next to the data one
PairKinds == {"sibling+3002", "readonly+3003wnr", "3003wnr+3002"}

GattTable(hasMotion, hasAccel, ctl, hasHr, hasHrChar, upper) ==
  (IF hasMotion
   THEN << Service(Up(MOTION_SERVICE_UUID, upper),
                   CtlChars(ctl, upper) \o
                   (IF hasAccel THEN << Char(Up(ACCEL_CHAR_UUID, upper), FALSE, FALSE) >>
                                ELSE << >>)) >>
   ELSE << >>)
  \o
  (IF hasHr
   THEN << Service(Up(HR_SERVICE_UUID, upper),
                   IF hasHrChar THEN << Char(Up(HR_CHAR_UUID, upper), FALSE, FALSE) >>
                                ELSE << >>) >>
   ELSE << >>)

\* the tables the model draws the peripheral from
GattTables ==
  { GattTable(TRUE, TRUE, k, TRUE, TRUE, FALSE) : k \in CtlKinds }
  \cup
  { GattTable(TRUE, TRUE, "3002", TRUE, TRUE, TRUE),
    GattTable(TRUE, TRUE, "none", TRUE, TRUE, TRUE),
    GattTable(FALSE, FALSE, "none", TRUE, TRUE, FALSE),
    GattTable(TRUE, TRUE, "3002", FALSE, FALSE, FALSE),
    GattTable(TRUE, FALSE, "3002", TRUE, TRUE, FALSE),
    GattTable(TRUE, FALSE, "none", TRUE, TRUE, TRUE),
    GattTable(TRUE, TRUE, "3002", TRUE, FALSE, FALSE),
    GattTable(FALSE, FALSE, "none", FALSE, FALSE, FALSE) }

(***************************************************************************)
(* discoverCharacteristics(device).  services: the device's GATT table;    *)
(* io: whether the enumeration calls (discoverAllServicesAndCharacteristics,*)
(* services(), characteristics()) resolve; a BLE call that rejects makes   *)
(* the function throw the library's error.                                 *)
(***************************************************************************)
IsMotionService(s) == ToLowerCase(s.uuid) = ToLowerCase(MOTION_SERVICE_UUID)
IsHrService(s)     == ToLowerCase(s.uuid) = ToLowerCase(HR_SERVICE_UUID)
\* (variant) the data characteristic matched as the device spells it
IsAccelChar_CaseSensitive(c) == c.uuid = ACCEL_CHAR_UUID

IsAccelChar(c)     == ToLowerCase(c.uuid) = ToLowerCase(ACCEL_CHAR_UUID)
IsHrChar(c)        == ToLowerCase(c.uuid) = ToLowerCase(HR_CHAR_UUID)

\* (variant) any writable characteristic but the data one taken for the control
IsAccelCtl_AnyWritable(c) ==
  /\ ToLowerCase(c.uuid) # ToLowerCase(ACCEL_CHAR_UUID)
  /\ (c.isWritableWithResponse \/ c.isWritableWithoutResponse)

IsAccelCtl(c) ==
  LET uuid == ToLowerCase(c.uuid) IN
    /\ uuid # ToLowerCase(ACCEL_CHAR_UUID)
    /\ (c.isWritableWithResponse \/ c.isWritableWithoutResponse)
    /\ (EndsWith(uuid, "3002") \/ EndsWith(uuid, "3003") \/ EndsWith(uuid, "3004"))

Throw(msg) == [status |-> "throw", error |-> msg]

discoverCharacteristics(services, io) ==
  IF ~io THEN Throw("BleError")
  ELSE
    LET motion == Find(services, IsMotionService)
        hr     == Find(services, IsHrService)
    IN IF motion = Undefined THEN Throw("Motion service not encontrado")
       ELSE IF hr = Undefined THEN Throw("Heart-rate service no encontrado")
       ELSE
         LET accelChar == Find(motion.characteristics, IsAccelChar)
             accelCtl  == Find(motion.characteristics, IsAccelCtl)
             hrChar    == Find(hr.characteristics, IsHrChar)
         IN IF accelChar = Undefined THEN Throw("Accel char 0x3001 no encontrada")
            ELSE IF hrChar = Undefined THEN Throw("HR char 0x2A37 no encontrada")
            ELSE [status |-> "ok", accelChar |-> accelChar,
                  accelCtl |-> accelCtl, hrChar |-> hrChar]

(***************************************************************************)
(* enableAccelerometer(ctl): the writes it attempts on the control         *)
(* characteristic, in order.  ok is whether a write resolves; no write is  *)
(* verified and no failure escapes (every write sits in its own try).      *)
(***************************************************************************)
commands ==
  << 1, 2, 3, 4, 5, 16, 32, 48, 64, 80, 96, 112, 128, 144, 160, 176, 192, 208,
     224, 240, 258, 515, 772, 1029, 4128, 8240, 12352, 16464, 20576, 24688,
     28800, 32912, 37024, 41136, 45248, 49360, 53472, 57584 >>

CmdPayload(cmd) ==
  IF cmd > 255 THEN << cmd % 256, (cmd \div 256) % 256 >> ELSE << cmd >>

\* (variant) the sweep without the unacknowledged writes
SweepWrites_AckOnly(i) ==
  [ k \in 1..(Len(commands) - i + 1) |->
      [mode |-> "withResponse", payload |-> CmdPayload(commands[i + k - 1])] ]

RECURSIVE SweepWrites(_)
SweepWrites(i) ==
  IF i > Len(commands) THEN << >>
  ELSE << [mode |-> "withResponse", payload |-> CmdPayload(commands[i])],
          [mode |-> "withoutResponse", payload |-> CmdPayload(commands[i])] >>
       \o SweepWrites(i + 1)

enableAccelerometer(ctl, ok) ==
  IF ctl = Undefined THEN << >>
  ELSE << [mode |-> "withResponse", payload |-> << 0 >>] >>
       \o SweepWrites(1)
       \o (IF ok THEN << >>
           ELSE << [mode |-> "withResponse", payload |-> << 1, 2, 3 >>] >>)

(***************************************************************************)
(* Heart-rate decoding, as both the monitor and the manual read do it.     *)
(* buf is the payload, a sequence of bytes (buf[1] is byte 0).             *)
(***************************************************************************)
NoHr == "null"

HrFlags(buf) == buf[1]

\* (variant) a decoder that ignores the flags byte
HrValue_Narrow(buf) ==
  IF Len(buf) >= 2
  THEN buf[2]
  ELSE NoHr

HrValue(buf) ==
  IF Len(buf) >= 2
  THEN IF HrFlags(buf) % 2 = 1 /\ Len(buf) >= 3
       THEN buf[2] + 256 * buf[3]
       ELSE buf[2]
  ELSE NoHr

\* if (hr && hr > 0 && hr < 250)
HrValid(buf) == Len(buf) >= 2 /\ HrValue(buf) # 0 /\ HrValue(buf) > 0 /\ HrValue(buf) < 250

\* the two copies of the range test: hrSub and manualHrInterval
MonitorHrValid(buf) == HrValid(buf)

\* (variant) the manual read accepting 250 as well
ManualHrValid_UpTo250(buf) ==
  Len(buf) >= 2 /\ HrValue(buf) # 0 /\ HrValue(buf) > 0 /\ HrValue(buf) <= 250

ManualHrValid(buf) == HrValid(buf)

(***************************************************************************)
(* ensurePineTime.  state: manager.state(); connected: the list returned   *)
(* by manager.connectedDevices([]).  A device name is the sequence of its  *)
(* characters, or Null.                                                    *)
(***************************************************************************)
Device(id, name) == [id |-> id, name |-> name]

UpperCaseLetters ==
  << "A", "B", "C", "D", "E", "F", "G", "H", "I", "J", "K", "L", "M",
     "N", "O", "P", "Q", "R", "S", "T", "U", "V", "W", "X", "Y", "Z" >>

LowerCaseLetters ==
  << "a", "b", "c", "d", "e", "f", "g", "h", "i", "j", "k", "l", "m",
     "n", "o", "p", "q", "r", "s", "t", "u", "v", "w", "x", "y", "z" >>

\* String.prototype.toLowerCase
toLowerCase(str) ==
  [ i \in 1..Len(str) |->
      IF \E k \in 1..Len(UpperCaseLetters) : UpperCaseLetters[k] = str[i]
      THEN LowerCaseLetters[CHOOSE k \in 1..Len(UpperCaseLetters) : UpperCaseLetters[k] = str[i]]
      ELSE str[i] ]

\* String.prototype.includes
RECURSIVE includes(_, _)
includes(str, searchString) ==
  IF Len(searchString) > Len(str) THEN FALSE
  ELSE IF SubSeq(str, 1, Len(searchString)) = searchString THEN TRUE
  ELSE includes(Tail(str), searchString)

\* (variant) the name searched as it is written
NameIncludes_AsWritten(d, fragment) ==
  IF d.name = Null THEN FALSE ELSE includes(d.name, fragment)

\* d.name?.toLowerCase().includes(fragment)
NameIncludes(d, fragment) ==
  IF d.name = Null THEN FALSE ELSE includes(toLowerCase(d.name), fragment)

IsPineTime(d) ==
  \/ NameIncludes(d, << "p", "i", "n", "e", "t", "i", "m", "e" >>)
  \/ NameIncludes(d, << "p", "i", "n", "e", " ", "t", "i", "m", "e" >>)
  \/ NameIncludes(d, << "i", "n", "f", "i", "n", "i", "t", "i", "m", "e" >>)

ensurePineTime(state, connected) ==
  IF state # "PoweredOn" THEN Null
  ELSE LET pineTime == Find(connected, IsPineTime)
       IN IF pineTime # Undefined THEN pineTime ELSE Null

\* the watch of the session model
TheWatch == Device("pt1", << "I", "n", "f", "i", "n", "i", "T", "i", "m", "e" >>)

\* other peripherals the phone may be connected to: a band, an earlier
\* PineTime under its other name, one advertising in capitals, one without a
\* name, one whose name stops short of a fragment
OtherDevices ==
  { Device("band", << "M", "i", " ", "B", "a", "n", "d" >>),
    Device("pt0", << "M", "y", " ", "P", "i", "n", "e", " ", "T", "i", "m", "e" >>),
    Device("pt2", << "P", "I", "N", "E", "T", "I", "M", "E" >>),
    Device("anon", Null),
    Device("pine", << "P", "i", "n", "e", "T", "i", "m" >>) }

(***************************************************************************)
(* State                                                                   *)
(***************************************************************************)
VARIABLES
  now,                  \* Date.now(), in ms
  adapterState,         \* manager.state()
  gatt,                 \* the watch's GATT table
  linkUp,               \* whether the watch is connected to the phone
  peripherals,          \* the other devices connected to the phone, as listed
  sleep_records,        \* store: rows of sleep_records, row i has id i
  raw_sensor_data,      \* store: per sensor_type, the newest rows inserted
  posts,                \* metrics service: sleep_record_id of every POST /compute
  accelFrequency,       \* ConfigContext, seconds
  hrFrequency,          \* ConfigContext, seconds
  connectedDevice,      \* BluetoothContext: Null or the device
  isCollecting,         \* HomeScreen state
  sleepRecordId,        \* HomeScreen state: an id, 0 for null
  cleanupRef,           \* HomeScreen ref: whether it holds the session's cleanup
  collectionSubscriptions, \* HomeScreen ref: whether it holds accel / hr
  alerts,               \* HomeScreen: the last Alert.alert shown
  startCall,            \* the call of startCollection in progress, and the last outcome
  stopCall,             \* the call of stopDataCollection in progress
  second,               \* a call of startCollection begun while one is in progress
  connectionRetryCount, \* module-level counter of BluetoothManager.ts
  session,              \* the variables of startCollection's closure
  accelCbs,             \* accelInterval callbacks awaiting I/O
  hrCbs,                \* manualHrInterval callbacks awaiting I/O
  keepCbs,              \* keepAlive callbacks awaiting I/O
  tasks,                \* attemptReconnection calls in progress
  followed,             \* how many of them the model follows at the same time
  trace                 \* history of what the session did, for the properties

vars ==
  << now, adapterState, gatt, linkUp, peripherals, sleep_records, raw_sensor_data, posts,
     accelFrequency, hrFrequency, connectedDevice, isCollecting, sleepRecordId,
     cleanupRef, collectionSubscriptions, alerts, startCall, stopCall, second,
     connectionRetryCount, session, accelCbs, hrCbs, keepCbs, tasks, followed,
     trace >>

envVars == << now, adapterState, gatt, linkUp >>
storeVars == << sleep_records, raw_sensor_data, posts >>
configVars == << accelFrequency, hrFrequency, followed >>
homeVars ==
  << connectedDevice, isCollecting, sleepRecordId, cleanupRef,
     collectionSubscriptions, alerts >>
cbVars == << accelCbs, hrCbs, keepCbs, tasks >>

\* accelFrequency * 1000: the clock of the model advances by one second
MsPerSecond == 1000

\* the sampling frequencies (seconds) the configuration screen is given
Frequencies == {1}

\* a session that was never started
NoSession ==
  [ armed |-> FALSE,
    sleepRecordId |-> 0, accelEveryMs |-> 0, hrEveryMs |-> 0,
    currentDevice |-> Null, currentAccelChar |-> Undefined,
    currentHrChar |-> Undefined, currentAccelCtl |-> Undefined,
    keepAlive |-> FALSE, accelInterval |-> FALSE, manualHrInterval |-> FALSE,
    accelPeriod |-> 0, hrPeriod |-> 0,   \* the periods given to setInterval, ms
    accelSub |-> FALSE, hrSub |-> FALSE, disconnectSub |-> FALSE,
    monitoring |-> FALSE, reconfTimeouts |-> 0,
    lastAccel |-> 0, lastHr |-> 0, consecutiveErrors |-> 0,
    lastAccelData |-> << >>, staleDataCount |-> 0,
    lastAccelValues |-> [ x |-> 0, y |-> 0, z |-> 0, w |-> 0 ],
    movementHistory |-> << >>,
    replaced |-> {} ]   \* what the session still holds of a connection it has replaced

IdleStart ==
  [ pc |-> "idle", userId |-> 0, sleepRecordId |-> 0, bleCalls |-> 0,
    adapterAtCall |-> "none", result |-> "none", error |-> "none", writes |-> 0 ]

\* no further call of startCollection.  armed: the timers and subscriptions of
\* its closure are set; held: cleanupRef.current is the cleanup it returned
NoSecond ==
  [ pc |-> "idle", userId |-> 0, sleepRecordId |-> 0, calls |-> 0,
    armed |-> FALSE, held |-> FALSE ]

IdleStop == [ pc |-> "idle", id |-> 0, calls |-> 0, wasActive |-> FALSE ]

NoTrace ==
  [ accelErrs |-> 0,          \* consecutive failed reads of the motion timer
    hrErrs |-> 0,             \* consecutive failed reads of the heart-rate timer
    hrDropped |-> FALSE,      \* a paced heart-rate payload failed the length or range test
    last |-> << >>,           \* the motion payload the session took in last
    run |-> 0,                \* how many times in a row it has taken that payload in
    reactivated |-> FALSE,    \* the stale-data reconfiguration was started
    lastResult |-> [at |-> "none", value |-> "none"],
                              \* where the last call of attemptReconnection to end
                              \* ended, and what it gave its caller
    attempts |-> 0 ]          \* attempts started since the last connect() that
                              \* resolved, or since cleanup()

\* the state after the app is launched, the environment drawn from the given sets
InitWith(adapters, links, others, tables, frequencies, calls) ==
  /\ now = 10 * MsPerSecond
  /\ followed = calls
  /\ adapterState \in adapters
  /\ gatt \in tables
  /\ linkUp \in links
  /\ peripherals \in others
  /\ sleep_records = << >>
  /\ raw_sensor_data = [t \in {"accelerometer", "heart_rate"} |-> << >>]
  /\ posts = << >>
  /\ accelFrequency \in frequencies
  /\ hrFrequency = accelFrequency
  /\ connectedDevice = Null
  /\ isCollecting = FALSE
  /\ sleepRecordId = 0
  /\ cleanupRef = FALSE
  /\ collectionSubscriptions = FALSE
  /\ alerts = "none"
  /\ startCall = IdleStart
  /\ stopCall = IdleStop
  /\ second = NoSecond
  /\ connectionRetryCount = 0
  /\ session = NoSession
  /\ accelCbs = << >>
  /\ hrCbs = << >>
  /\ keepCbs = << >>
  /\ tasks = << >>
  /\ trace = NoTrace

\* one call of attemptReconnection at a time
InitOf(adapters, links, others, tables, frequencies) ==
  InitWith(adapters, links, others, tables, frequencies, MaxTasks)

Init == InitOf({"PoweredOn", "PoweredOff"}, BOOLEAN, {<< >>}, GattTables, Frequencies)

(***************************************************************************)
(* Helpers                                                                 *)
(***************************************************************************)
\* whether a BLE call on the watch can resolve
Io == linkUp /\ adapterState = "PoweredOn"

\* manager.connectedDevices([])
ConnectedDevices == IF linkUp THEN peripherals \o << TheWatch >> ELSE peripherals

Remove(seq, i) == SubSeq(seq, 1, i - 1) \o SubSeq(seq, i + 1, Len(seq))

Replace(seq, i, x) == [seq EXCEPT ![i] = x]

\* the newest RowWindow rows
Keep(rows) ==
  IF Len(rows) > RowWindow THEN SubSeq(rows, Len(rows) - RowWindow + 1, Len(rows)) ELSE rows

Min(a, b) == IF a < b THEN a ELSE b

(***************************************************************************)
(* attemptReconnection, up to its first await: the budget test and the     *)
(* increment.  Gives the new counter and the new list of calls in progress *)
(* (a call that returns false at once leaves no call in progress).         *)
(***************************************************************************)
BudgetLeft == connectionRetryCount < MAX_RETRY_ATTEMPTS

\* a further call can be followed by the model
CanAttempt == (~BudgetLeft) \/ Len(tasks) < followed

\* (variant) the budget test letting one more attempt through
attemptReconnection_OneMore(trigger) ==
  IF connectionRetryCount > MAX_RETRY_ATTEMPTS
  THEN [ connectionRetryCount |-> connectionRetryCount, tasks |-> tasks ]
  ELSE [ connectionRetryCount |-> connectionRetryCount + 1,
         tasks |-> Append(tasks, [pc |-> "backoff", trigger |-> trigger]) ]

attemptReconnection(trigger) ==
  IF connectionRetryCount >= MAX_RETRY_ATTEMPTS
  THEN [ connectionRetryCount |-> connectionRetryCount, tasks |-> tasks ]
  ELSE [ connectionRetryCount |-> connectionRetryCount + 1,
         tasks |-> Append(tasks, [pc |-> "backoff", trigger |-> trigger]) ]

\* history: when attemptReconnection is called, either an attempt starts or
\* the call has returned false at once
Called(t, called) ==
  IF ~called THEN t
  ELSE IF Len(attemptReconnection("any").tasks) > Len(tasks)
       THEN [t EXCEPT !.attempts = Min(@ + 1, MAX_RETRY_ATTEMPTS + 1)]
       ELSE [t EXCEPT !.lastResult = [at |-> "budget", value |-> "false"]]

\* (variant) a failure of the body escaping the call
Returned_Uncaught(outcome) == IF outcome = "throw" THEN "rejected" ELSE outcome

\* the try / catch around the body of attemptReconnection: what the call
\* gives its caller when a step of the body ends in outcome
Returned(outcome) == IF outcome = "throw" THEN "false" ELSE outcome

\* history: a call ends at the step named at, the step ending in outcome
Ended(t, at, outcome) ==
  [t EXCEPT !.lastResult = [at |-> at, value |-> Returned(outcome)]]

(***************************************************************************)
(* Environment                                                             *)
(***************************************************************************)
Tick ==
  /\ now < (10 + MaxTime) * MsPerSecond
  /\ now' = now + MsPerSecond
  /\ UNCHANGED << adapterState, gatt, linkUp >>
  /\ UNCHANGED << storeVars, configVars, peripherals, second, homeVars, startCall, stopCall,
                  connectionRetryCount, session, cbVars, trace >>

\* the link to the watch is lost (out of range, radio switched off): the
\* library calls the listener registered with onDisconnected, if any
LinkLost(newAdapterState) ==
  /\ linkUp
  /\ linkUp' = FALSE
  /\ adapterState' = newAdapterState
  /\ session' = [session EXCEPT !.monitoring = FALSE]
  /\ IF session.disconnectSub
     THEN /\ CanAttempt
          /\ connectionRetryCount' = attemptReconnection("disconnectSub").connectionRetryCount
          /\ tasks' = attemptReconnection("disconnectSub").tasks
     ELSE UNCHANGED << connectionRetryCount, tasks >>
  /\ trace' = Called(trace, session.disconnectSub)
  /\ UNCHANGED << now, gatt, storeVars, configVars, peripherals, second, homeVars, startCall, stopCall,
                  accelCbs, hrCbs, keepCbs >>

Disconnect == LinkLost(adapterState)

PowerOff ==
  /\ adapterState = "PoweredOn"
  /\ IF linkUp THEN LinkLost("PoweredOff")
     ELSE /\ adapterState' = "PoweredOff"
          /\ UNCHANGED << now, gatt, linkUp, storeVars, configVars, peripherals, second, homeVars, startCall,
                          stopCall, connectionRetryCount, session, cbVars, trace >>

PowerOn ==
  /\ adapterState = "PoweredOff"
  /\ adapterState' = "PoweredOn"
  /\ UNCHANGED << now, gatt, linkUp, storeVars, configVars, peripherals, second, homeVars, startCall,
                  stopCall, connectionRetryCount, session, cbVars, trace >>

\* the user pairs the watch again from the system settings
UserConnects ==
  /\ adapterState = "PoweredOn"
  /\ ~linkUp
  /\ linkUp' = TRUE
  /\ UNCHANGED << now, gatt, adapterState, storeVars, configVars, peripherals, second, homeVars, startCall,
                  stopCall, connectionRetryCount, session, cbVars, trace >>

(***************************************************************************)
(* HomeScreen: the mount effect that looks the watch up                    *)
(***************************************************************************)
HomeInit ==
  /\ connectedDevice = Null
  /\ ensurePineTime(adapterState, ConnectedDevices) # Null
  /\ connectedDevice' = ensurePineTime(adapterState, ConnectedDevices)
  /\ UNCHANGED << envVars, storeVars, configVars, peripherals, second, isCollecting, sleepRecordId, cleanupRef,
                  collectionSubscriptions, alerts, startCall, stopCall,
                  connectionRetryCount, session, cbVars, trace >>

(***************************************************************************)
(* startCollection, called by HomeScreen.startCollectionForUser            *)
(***************************************************************************)
Users == {7}

\* nothing of an earlier session is still running
WoundDown ==
  /\ ~session.armed
  /\ session.reconfTimeouts = 0
  /\ accelCbs = << >> /\ hrCbs = << >> /\ keepCbs = << >> /\ tasks = << >>

\* startCollection rejects: startCollectionForUser's catch shows the alert
Rejected(call, error) ==
  /\ startCall' = [call EXCEPT !.pc = "idle", !.result = "rejected", !.error = error]
  /\ alerts' = error

StartCollectionForUser(userId) ==
  /\ startCall.pc = "idle"
  /\ stopCall.pc = "idle"
  /\ ~isCollecting
  /\ WoundDown
  /\ IF connectedDevice = Null
     THEN /\ alerts' = "PineTime no conectado"
          /\ UNCHANGED startCall
     ELSE /\ startCall' = [IdleStart EXCEPT !.pc = "createSleepRecord", !.userId = userId,
                                            !.adapterAtCall = adapterState]
          /\ UNCHANGED alerts
  /\ UNCHANGED << envVars, storeVars, configVars, peripherals, second, connectedDevice, isCollecting,
                  sleepRecordId, cleanupRef, collectionSubscriptions, stopCall,
                  connectionRetryCount, session, cbVars, trace >>

\* const sleepRecordId = await createSleepRecord(userId)
createSleepRecord(userId) ==
  [ id |-> Len(sleep_records) + 1, user_id |-> userId, created_at |-> now,
    ended_at |-> 0, updates |-> 0 ]

\* (variant) discovery run before the record is created
StartCreateSleepRecord_AfterDiscovery ==
  /\ startCall.pc = "createSleepRecord"
  /\ \/ /\ Len(sleep_records) < MaxRecords
        /\ sleep_records' = Append(sleep_records, createSleepRecord(startCall.userId))
        /\ startCall' = [startCall EXCEPT !.pc = "discoverCharacteristics",
                                          !.bleCalls = @ + 1,
                                          !.sleepRecordId = Len(sleep_records) + 1]
        /\ UNCHANGED alerts
     \/ /\ Rejected([startCall EXCEPT !.bleCalls = @ + 1], "insert error")
        /\ UNCHANGED sleep_records
  /\ UNCHANGED << envVars, raw_sensor_data, posts, configVars, peripherals, second, connectedDevice, isCollecting,
                  sleepRecordId, cleanupRef, collectionSubscriptions, stopCall,
                  connectionRetryCount, session, cbVars, trace >>

StartCreateSleepRecord ==
  /\ startCall.pc = "createSleepRecord"
  /\ \/ /\ Len(sleep_records) < MaxRecords
        /\ sleep_records' = Append(sleep_records, createSleepRecord(startCall.userId))
        /\ startCall' = [startCall EXCEPT !.pc = "discoverCharacteristics",
                                          !.sleepRecordId = Len(sleep_records) + 1]
        /\ UNCHANGED alerts
     \/ /\ Rejected(startCall, "insert error")
        /\ UNCHANGED sleep_records
  /\ UNCHANGED << envVars, raw_sensor_data, posts, configVars, peripherals, second, connectedDevice, isCollecting,
                  sleepRecordId, cleanupRef, collectionSubscriptions, stopCall,
                  connectionRetryCount, session, cbVars, trace >>

\* initializeCharacteristics: discoverCharacteristics(device) and the assignments
StartDiscover ==
  /\ startCall.pc = "discoverCharacteristics"
  /\ LET r == discoverCharacteristics(gatt, Io) IN
       IF r.status = "throw"
       THEN /\ Rejected([startCall EXCEPT !.bleCalls = @ + 1], r.error)
            /\ UNCHANGED session
       ELSE /\ startCall' = [startCall EXCEPT !.pc = "enableAccelerometer",
                                              !.bleCalls = @ + 1]
            /\ session' = [NoSession EXCEPT !.currentDevice = connectedDevice,
                                            !.currentAccelChar = r.accelChar,
                                            !.currentHrChar = r.hrChar,
                                            !.currentAccelCtl = r.accelCtl]
            /\ UNCHANGED alerts
  /\ UNCHANGED << envVars, storeVars, configVars, peripherals, second, connectedDevice, isCollecting,
                  sleepRecordId, cleanupRef, collectionSubscriptions, stopCall,
                  connectionRetryCount, cbVars, trace >>

\* initializeCharacteristics: await enableAccelerometer(accelCtl)
StartEnable ==
  /\ startCall.pc = "enableAccelerometer"
  /\ \E ok \in (IF Io THEN BOOLEAN ELSE {FALSE}) :
       startCall' = [startCall EXCEPT
                       !.pc = "arm",
                       !.writes = Len(enableAccelerometer(session.currentAccelCtl, ok))]
  /\ UNCHANGED << envVars, storeVars, configVars, peripherals, second, homeVars, stopCall,
                  connectionRetryCount, session, cbVars, trace >>

\* the rest of startCollection runs without an await: the timers, the disconnect
\* listener and the monitors are armed, and startCollectionForUser stores the result
(***************************************************************************)
(* ConfigurationScreen.handleSave: the two text fields go through parseInt *)
(* into the ConfigContext.  A text is a sequence of characters.  NaN is    *)
(* kept as a number below every number a text of the model parses to, so   *)
(* that x < NaN is false for the times the session compares with it and    *)
(* Math.min(NaN, 500) is NaN; the product of NaN is NaN.                   *)
(***************************************************************************)
NaN == -1000000

DigitChars == << "0", "1", "2", "3", "4", "5", "6", "7", "8", "9" >>

IsDigit(c) == \E d \in 1..Len(DigitChars) : DigitChars[d] = c

DigitValue(c) == (CHOOSE d \in 1..Len(DigitChars) : DigitChars[d] = c) - 1

\* leading white space dropped
RECURSIVE TrimStart(_)
TrimStart(str) ==
  IF str # << >> /\ Head(str) = " " THEN TrimStart(Tail(str)) ELSE str

\* the value of the longest run of digits str starts with, after acc
RECURSIVE ParseDigits(_, _)
ParseDigits(str, acc) ==
  IF str # << >> /\ IsDigit(Head(str))
  THEN ParseDigits(Tail(str), 10 * acc + DigitValue(Head(str)))
  ELSE acc

\* parseInt(str), radix 10: white space, an optional sign, then digits up to
\* the first character that is none; NaN without a digit
parseInt(str) ==
  LET t == TrimStart(str)
      negative == t # << >> /\ Head(t) = "-"
      body == IF t # << >> /\ Head(t) \in {"-", "+"} THEN Tail(t) ELSE t
  IN IF body = << >> \/ ~IsDigit(Head(body))
     THEN NaN
     ELSE IF negative THEN 0 - ParseDigits(body, 0) ELSE ParseDigits(body, 0)

\* a * b of two numbers
Times(a, b) == IF a = NaN \/ b = NaN THEN NaN ELSE a * b

\* handleSave with the two fields holding localAccel and localHR; setConfig
\* stores whatever is not undefined
handleSave(localAccel, localHR) ==
  /\ startCall.pc = "idle"
  /\ accelFrequency' = parseInt(localAccel)
  /\ hrFrequency' = parseInt(localHR)
  /\ UNCHANGED << envVars, storeVars, followed, peripherals, second, homeVars, startCall,
                  stopCall, connectionRetryCount, session, cbVars, trace >>

\* the most the motion timer waits between two callbacks, ms
MaxAccelPeriod == 500

\* (variant) a motion timer held to a period of at least 1.5 s
AccelPeriod_AtLeast(accelEveryMs) ==
  IF accelEveryMs > 3 * MaxAccelPeriod THEN accelEveryMs ELSE 3 * MaxAccelPeriod

\* setInterval(..., Math.min(accelEveryMs, 500))
AccelPeriod(accelEveryMs) == Min(accelEveryMs, MaxAccelPeriod)

\* setInterval(..., hrEveryMs)
HrPeriod(hrEveryMs) == hrEveryMs

StartArm ==
  /\ startCall.pc = "arm"
  /\ session' = [session EXCEPT
                   !.armed = TRUE,
                   !.sleepRecordId = startCall.sleepRecordId,
                   !.accelEveryMs = Times(accelFrequency, MsPerSecond),
                   !.hrEveryMs = Times(hrFrequency, MsPerSecond),
                   !.keepAlive = TRUE, !.accelInterval = TRUE, !.manualHrInterval = TRUE,
                   !.accelPeriod = AccelPeriod(Times(accelFrequency, MsPerSecond)),
                   !.hrPeriod = HrPeriod(Times(hrFrequency, MsPerSecond)),
                   !.disconnectSub = TRUE, !.accelSub = TRUE, !.hrSub = TRUE,
                   !.monitoring = Io]
  /\ startCall' = [startCall EXCEPT !.pc = "idle", !.result = "resolved"]
  /\ collectionSubscriptions' = TRUE
  /\ cleanupRef' = TRUE
  /\ isCollecting' = TRUE
  /\ sleepRecordId' = startCall.sleepRecordId
  /\ second' = [second EXCEPT !.held = FALSE]
  /\ trace' = NoTrace
  /\ UNCHANGED << envVars, storeVars, configVars, peripherals, connectedDevice, alerts, stopCall,
                  connectionRetryCount, cbVars >>

(***************************************************************************)
(* A further call of startCollectionForUser while one is in progress: the  *)
(* button opens the modal as long as isCollecting is false, and            *)
(* isCollecting is set only when startCollection has resolved.  The model  *)
(* follows one such call up to its arming; its closure is second.          *)
(***************************************************************************)
\* the button, the modal, startCollectionForUser(userId)
SecondStart(userId) ==
  /\ startCall.pc # "idle"
  /\ second = NoSecond
  /\ stopCall.pc = "idle"
  /\ ~isCollecting
  /\ connectedDevice # Null
  /\ second' = [NoSecond EXCEPT !.pc = "createSleepRecord", !.userId = userId,
                                !.calls = 1]
  /\ UNCHANGED << envVars, storeVars, configVars, peripherals, homeVars, startCall, stopCall,
                  connectionRetryCount, session, cbVars, trace >>

\* startCollection rejects: startCollectionForUser's catch shows the alert
SecondRejected(error) ==
  /\ second' = [second EXCEPT !.pc = "idle"]
  /\ alerts' = error

\* const sleepRecordId = await createSleepRecord(userId)
SecondCreateSleepRecord ==
  /\ second.pc = "createSleepRecord"
  /\ \/ /\ Len(sleep_records) < MaxRecords
        /\ sleep_records' = Append(sleep_records, createSleepRecord(second.userId))
        /\ second' = [second EXCEPT !.pc = "discoverCharacteristics",
                                    !.sleepRecordId = Len(sleep_records) + 1]
        /\ UNCHANGED alerts
     \/ /\ SecondRejected("insert error")
        /\ UNCHANGED sleep_records
  /\ UNCHANGED << envVars, raw_sensor_data, posts, configVars, peripherals, connectedDevice,
                  isCollecting, sleepRecordId, cleanupRef, collectionSubscriptions,
                  startCall, stopCall, connectionRetryCount, session, cbVars, trace >>

\* initializeCharacteristics: discoverCharacteristics(device)
SecondDiscover ==
  /\ second.pc = "discoverCharacteristics"
  /\ LET r == discoverCharacteristics(gatt, Io) IN
       IF r.status = "throw"
       THEN SecondRejected(r.error)
       ELSE /\ second' = [second EXCEPT !.pc = "enableAccelerometer"]
            /\ UNCHANGED alerts
  /\ UNCHANGED << envVars, storeVars, configVars, peripherals, connectedDevice, isCollecting,
                  sleepRecordId, cleanupRef, collectionSubscriptions, startCall, stopCall,
                  connectionRetryCount, session, cbVars, trace >>

\* await enableAccelerometer(accelCtl): the writes go to the same watch
SecondEnable ==
  /\ second.pc = "enableAccelerometer"
  /\ second' = [second EXCEPT !.pc = "arm"]
  /\ UNCHANGED << envVars, storeVars, configVars, peripherals, homeVars, startCall, stopCall,
                  connectionRetryCount, session, cbVars, trace >>

\* its timers and subscriptions are set, and startCollectionForUser stores the
\* result over what the refs held
SecondArm ==
  /\ second.pc = "arm"
  /\ second' = [second EXCEPT !.pc = "idle", !.armed = TRUE, !.held = TRUE]
  /\ collectionSubscriptions' = FALSE
  /\ cleanupRef' = FALSE
  /\ isCollecting' = TRUE
  /\ sleepRecordId' = second.sleepRecordId
  /\ UNCHANGED << envVars, storeVars, configVars, peripherals, connectedDevice, alerts,
                  startCall, stopCall, connectionRetryCount, session, cbVars, trace >>

\* the further call of startCollection
NextSecond ==
  \/ \E u \in Users : SecondStart(u)
  \/ SecondCreateSleepRecord
  \/ SecondDiscover
  \/ SecondEnable
  \/ SecondArm

(***************************************************************************)
(* HomeScreen.stopDataCollection and the session's cleanup                 *)
(***************************************************************************)
\* cleanup(): the three remove() and the three clearInterval
cleanup(s) ==
  [s EXCEPT !.armed = FALSE,
            !.accelSub = FALSE, !.hrSub = FALSE, !.disconnectSub = FALSE,
            !.keepAlive = FALSE, !.accelInterval = FALSE, !.manualHrInterval = FALSE]

\* what of a session can still call back
Armed(s) ==
  { t \in {"keepAlive", "accelInterval", "manualHrInterval",
           "accelSub", "hrSub", "disconnectSub"} : s[t] }
  \cup (IF s.reconfTimeouts > 0 THEN {"setTimeout"} ELSE {})

StopDataCollection ==
  /\ stopCall.pc = "idle"
  /\ startCall.pc = "idle"
  /\ stopCall.calls < MaxStops
  /\ LET removed == IF collectionSubscriptions
                    THEN [session EXCEPT !.accelSub = FALSE, !.hrSub = FALSE]
                    ELSE session
         after   == IF cleanupRef THEN cleanup(removed) ELSE removed
     IN /\ session' = after
        /\ connectionRetryCount' =
             IF cleanupRef \/ second.held THEN 0 ELSE connectionRetryCount
        /\ stopCall' = [ pc |-> IF sleepRecordId # 0 THEN "update" ELSE "idle",
                         id |-> sleepRecordId,
                         calls |-> stopCall.calls + 1,
                         wasActive |-> cleanupRef \/ second.held ]
  /\ second' = IF second.held THEN [second EXCEPT !.armed = FALSE, !.held = FALSE]
                ELSE second
  /\ collectionSubscriptions' = FALSE
  /\ cleanupRef' = FALSE
  /\ isCollecting' = FALSE
  /\ trace' = IF cleanupRef \/ second.held THEN [trace EXCEPT !.attempts = 0] ELSE trace
  /\ UNCHANGED << envVars, storeVars, configVars, peripherals, connectedDevice, sleepRecordId, alerts,
                  startCall, cbVars >>

\* supabase.from('sleep_records').update({ ended_at }).eq('id', sleepRecordId):
\* the store answers with or without an error; both are only logged
StopUpdate ==
  /\ stopCall.pc = "update"
  /\ \E ok \in BOOLEAN :
       sleep_records' =
         [sleep_records EXCEPT ![stopCall.id] =
            [@ EXCEPT !.updates = @ + 1,
                      !.ended_at = IF ok THEN now ELSE sleep_records[stopCall.id].ended_at]]
  /\ stopCall' = [stopCall EXCEPT !.pc = "post"]
  /\ UNCHANGED << envVars, raw_sensor_data, posts, configVars, peripherals, second, homeVars, startCall,
                  connectionRetryCount, session, cbVars, trace >>

\* fetch(.../compute, { body: { sleep_record_id } }): resolves or throws, logged
StopPost ==
  /\ stopCall.pc = "post"
  /\ posts' = Append(posts, [sleep_record_id |-> stopCall.id])
  /\ stopCall' = [stopCall EXCEPT !.pc = "idle"]
  /\ UNCHANGED << envVars, sleep_records, raw_sensor_data, configVars, peripherals, second, homeVars, startCall,
                  connectionRetryCount, session, cbVars, trace >>

(***************************************************************************)
(* saveSensorData: the insert into raw_sensor_data.  arrived (history) is  *)
(* when the payload reached the app.  A failed insert leaves no row and    *)
(* makes saveSensorData reject.                                            *)
(***************************************************************************)
Row(id, type, value, arrived) ==
  [ sleep_record_id |-> id, sensor_type |-> type, value |-> value,
    arrived |-> arrived ]

saveSensorData(data, id, type, value, arrived) ==
  [data EXCEPT ![type] = Keep(Append(@, Row(id, type, value, arrived)))]

\* the store's answer to one insert
Inserted(ok, id, type, value, arrived) ==
  raw_sensor_data' =
    IF ok THEN saveSensorData(raw_sensor_data, id, type, value, arrived)
    ELSE raw_sensor_data

(***************************************************************************)
(* Heart rate: the monitor (hrSub) and the scheduled read                  *)
(* (manualHrInterval)                                                      *)
(***************************************************************************)
\* the flags bytes and the value bytes the heart-rate payloads are made of
HrFlagBytes == {0, 1}

HrBytes == {0, 60, 250}

\* longest heart-rate payload of the model
MaxHrLen == 3

\* nothing, or a flags byte and up to MaxHrLen - 1 value bytes
HrPayloads ==
  { << >> } \cup
  { << f >> \o rest : f \in HrFlagBytes,
                      rest \in UNION { [1..n -> HrBytes] : n \in 0..(MaxHrLen - 1) } }

\* the value both paths hand to saveSensorData (hrSub's carries no source)
HrSample(buf, source) ==
  [ heartRate |-> HrValue(buf), raw_hex |-> buf, flags |-> HrFlags(buf), source |-> source ]

\* hrSub's callback for one notification carrying buf
HrNotify(buf) ==
  /\ session.hrSub /\ session.monitoring /\ Io
  /\ IF Len(buf) = 0 \/ now - session.lastHr < session.hrEveryMs
     THEN UNCHANGED << session, raw_sensor_data, trace >>
     ELSE /\ session' = [session EXCEPT !.lastHr = now]
          /\ IF MonitorHrValid(buf)
             THEN \E ok \in BOOLEAN :
                    Inserted(ok, session.sleepRecordId, "heart_rate",
                             HrSample(buf, "monitor"), now)
             ELSE UNCHANGED raw_sensor_data
          /\ trace' = [trace EXCEPT !.hrDropped = @ \/ ~MonitorHrValid(buf)]
  /\ UNCHANGED << envVars, sleep_records, posts, configVars, peripherals, second, homeVars, startCall, stopCall,
                  connectionRetryCount, cbVars >>

\* manualHrInterval's callback, up to await currentHrChar.read()
HrTimerFire ==
  /\ session.manualHrInterval
  /\ Len(hrCbs) < MaxInFlight
  /\ IF now - session.lastHr < session.hrEveryMs
     THEN UNCHANGED hrCbs
     ELSE hrCbs' = Append(hrCbs, [now |-> now])
  /\ UNCHANGED << envVars, storeVars, configVars, peripherals, second, homeVars, startCall, stopCall,
                  connectionRetryCount, session, accelCbs, keepCbs, tasks, trace >>

\* (variant) the heart-rate timer counting its failures as the motion timer does
HrReadFailed_Counted(i) ==
  /\ i \in 1..Len(hrCbs)
  /\ hrCbs' = Remove(hrCbs, i)
  /\ trace' = Called([trace EXCEPT !.hrErrs = Min(@ + 1, MAX_CONSECUTIVE_ERRORS)],
                       trace.hrErrs + 1 >= MAX_CONSECUTIVE_ERRORS)
  /\ IF trace.hrErrs + 1 >= MAX_CONSECUTIVE_ERRORS
     THEN /\ CanAttempt
          /\ connectionRetryCount' = attemptReconnection("manualHrInterval").connectionRetryCount
          /\ tasks' = attemptReconnection("manualHrInterval").tasks
     ELSE UNCHANGED << connectionRetryCount, tasks >>
  /\ UNCHANGED << envVars, storeVars, configVars, peripherals, second, homeVars, startCall, stopCall,
                  session, accelCbs, keepCbs >>

\* the read rejects or resolves without a value: logged, nothing else
HrReadFailed(i) ==
  /\ i \in 1..Len(hrCbs)
  /\ hrCbs' = Remove(hrCbs, i)
  /\ trace' = [trace EXCEPT !.hrErrs = Min(@ + 1, MAX_CONSECUTIVE_ERRORS)]
  /\ UNCHANGED << envVars, storeVars, configVars, peripherals, second, homeVars, startCall, stopCall,
                  connectionRetryCount, session, accelCbs, keepCbs, tasks >>

\* the read resolves with buf
HrReadReturn(i, buf) ==
  /\ i \in 1..Len(hrCbs)
  /\ Io
  /\ Len(buf) > 0
  /\ hrCbs' = Remove(hrCbs, i)
  /\ session' = [session EXCEPT !.lastHr = hrCbs[i].now]
  /\ IF ManualHrValid(buf)
     THEN \E ok \in BOOLEAN :
            Inserted(ok, session.sleepRecordId, "heart_rate",
                     HrSample(buf, "manual_read"), now)
     ELSE UNCHANGED raw_sensor_data
  /\ trace' = [trace EXCEPT !.hrErrs = 0, !.hrDropped = @ \/ ~ManualHrValid(buf)]
  /\ UNCHANGED << envVars, sleep_records, posts, configVars, peripherals, second, homeVars, startCall, stopCall,
                  connectionRetryCount, accelCbs, keepCbs, tasks >>

(***************************************************************************)
(* keepAlive                                                               *)
(***************************************************************************)
KeepAliveFire ==
  /\ session.keepAlive
  /\ Len(keepCbs) < MaxInFlight
  /\ keepCbs' = Append(keepCbs, [now |-> now])
  /\ UNCHANGED << envVars, storeVars, configVars, peripherals, second, homeVars, startCall, stopCall,
                  connectionRetryCount, session, accelCbs, hrCbs, tasks, trace >>

\* (variant) a keep-alive read that counts its failure as the motion timer does
KeepAliveReturn_Counted(i) ==
  /\ i \in 1..Len(keepCbs)
  /\ \/ /\ Io
        /\ keepCbs' = Remove(keepCbs, i)
        /\ UNCHANGED << connectionRetryCount, tasks, trace, session >>
     \/ /\ CanAttempt
        /\ keepCbs' = Remove(keepCbs, i)
        /\ session' = [session EXCEPT !.consecutiveErrors = Min(@ + 1, MaxErrors)]
        /\ connectionRetryCount' = attemptReconnection("keepAlive").connectionRetryCount
        /\ tasks' = attemptReconnection("keepAlive").tasks
        /\ trace' = Called(trace, TRUE)
  /\ UNCHANGED << envVars, storeVars, configVars, peripherals, second, homeVars, startCall, stopCall,
                  accelCbs, hrCbs >>

KeepAliveReturn(i) ==
  /\ i \in 1..Len(keepCbs)
  /\ \/ /\ Io
        /\ keepCbs' = Remove(keepCbs, i)
        /\ UNCHANGED << connectionRetryCount, tasks, trace >>
     \/ /\ CanAttempt
        /\ keepCbs' = Remove(keepCbs, i)
        /\ connectionRetryCount' = attemptReconnection("keepAlive").connectionRetryCount
        /\ tasks' = attemptReconnection("keepAlive").tasks
        /\ trace' = Called(trace, TRUE)
  /\ UNCHANGED << envVars, storeVars, configVars, peripherals, second, homeVars, startCall, stopCall,
                  session, accelCbs, hrCbs >>

(***************************************************************************)
(* parseAccelerometerData.  buf: the payload, a sequence of bytes          *)
(***************************************************************************)
\* buf.readInt8(k - 1)
readInt8(buf, k) == IF buf[k] >= 128 THEN buf[k] - 256 ELSE buf[k]

\* buf.readUInt8(k - 1)
readUInt8(buf, k) == buf[k]

\* (variant) the 16-bit lanes read without a sign
readInt16LE_Unsigned(buf, k) == buf[k] + 256 * buf[k + 1]

\* buf.readInt16LE(k - 1)
readInt16LE(buf, k) ==
  LET u == buf[k] + 256 * buf[k + 1]
  IN IF u >= 32768 THEN u - 65536 ELSE u

\* (variant) the constant-data test knowing the all-zero payload only
isConstantData_ZeroOnly(x1, y1, z1, w1) ==
  x1 = 0 /\ y1 = 0 /\ z1 = 0 /\ w1 = 0

isConstantData(x1, y1, z1, w1) ==
  \/ (x1 = 70 /\ y1 = 1 /\ z1 = 0 /\ w1 = 0)
  \/ (x1 = -50 /\ y1 = 0 /\ z1 = 0 /\ w1 = 0)
  \/ (x1 = 0 /\ y1 = 0 /\ z1 = 0 /\ w1 = 0)

\* (variant) an unexpected length reported without the payload
UnexpectedLength_Bare(buf) ==
  [ parsing_method |-> "unknown", is_valid |-> FALSE ]

\* the return for a payload of unexpected length
UnexpectedLength(buf) ==
  [ raw_hex |-> buf, parsing_method |-> "unknown", is_valid |-> FALSE ]

parseAccelerometerData(buf) ==
  IF Len(buf) = 4
  THEN LET x1 == readInt8(buf, 1)
           y1 == readInt8(buf, 2)
           z1 == readInt8(buf, 3)
           w1 == readInt8(buf, 4)
           x2 == readUInt8(buf, 1)
           y2 == readUInt8(buf, 2)
           z2 == readUInt8(buf, 3)
           w2 == readUInt8(buf, 4)
           x3 == readInt16LE(buf, 1)
           y3 == readInt16LE(buf, 3)
       IN IF isConstantData(x1, y1, z1, w1)
          THEN [ x |-> x3, y |-> y3, z |-> 0, w |-> 0,
                 x_alt1 |-> x1, y_alt1 |-> y1, z_alt1 |-> z1, w_alt1 |-> w1,
                 x_alt2 |-> x2, y_alt2 |-> y2, z_alt2 |-> z2, w_alt2 |-> w2,
                 raw_hex |-> buf,
                 parsing_method |-> "alternative_16bit",
                 is_constant |-> TRUE,
                 original_values |-> [ x |-> x1, y |-> y1, z |-> z1, w |-> w1 ] ]
          ELSE [ x |-> x1, y |-> y1, z |-> z1, w |-> w1,
                 x_alt1 |-> x2, y_alt1 |-> y2, z_alt1 |-> z2, w_alt1 |-> w2,
                 x_alt2 |-> x3, y_alt2 |-> y3,
                 raw_hex |-> buf,
                 parsing_method |-> "primary" ]
  ELSE IF Len(buf) = 6
  THEN LET x == readInt16LE(buf, 1)
           y == readInt16LE(buf, 3)
           z == readInt16LE(buf, 5)
       IN [ x |-> x, y |-> y, z |-> z,
            raw_hex |-> buf,
            parsing_method |-> "16bit",
            is_valid |-> ~(x = 0 /\ y = 0 /\ z = 0) ]
  ELSE UnexpectedLength(buf)

\* parsedData.f || 0
OrZero(parsedData, f) == IF f \in DOMAIN parsedData THEN parsedData[f] ELSE 0

\* the currentValues both callbacks build from a parsed payload
CurrentValues(parsedData) ==
  [ x |-> OrZero(parsedData, "x"), y |-> OrZero(parsedData, "y"),
    z |-> OrZero(parsedData, "z"), w |-> OrZero(parsedData, "w") ]

(***************************************************************************)
(* detectMovement and getMovementSummary of startCollection's closure      *)
(***************************************************************************)
movementThreshold == 2

MAX_MOVEMENT_HISTORY == 100

Abs(n) == IF n < 0 THEN -n ELSE n

\* Math.sqrt(n), kept as the number under the root
Sqrt(n) == [ sqrt |-> n ]

\* (variant) a full history refusing the new event
Pushed_KeepsOldest(movementHistory, movementEvent) ==
  IF Len(movementHistory) >= MAX_MOVEMENT_HISTORY
  THEN movementHistory
  ELSE Append(movementHistory, movementEvent)

\* movementHistory.push(movementEvent), then shift() above the capacity
Pushed(movementHistory, movementEvent) ==
  LET pushed == Append(movementHistory, movementEvent)
  IN IF Len(pushed) > MAX_MOVEMENT_HISTORY THEN Tail(pushed) ELSE pushed

\* the result detectMovement returns, and the history it leaves; t: Date.now()
detectMovement(currentValues, lastAccelValues, movementHistory, t) ==
  LET deltaX == Abs(currentValues.x - lastAccelValues.x)
      deltaY == Abs(currentValues.y - lastAccelValues.y)
      deltaZ == Abs(currentValues.z - lastAccelValues.z)
      deltaW == Abs(currentValues.w - lastAccelValues.w)
      totalDelta == deltaX + deltaY + deltaZ + deltaW
      magnitude == Sqrt(deltaX * deltaX + deltaY * deltaY + deltaZ * deltaZ + deltaW * deltaW)
      movementType ==
        IF deltaX > deltaY /\ deltaX > deltaZ THEN "roll"
        ELSE IF deltaY > deltaX /\ deltaY > deltaZ THEN "pitch"
        ELSE IF deltaZ > deltaX /\ deltaZ > deltaY THEN "yaw"
        ELSE "general"
  IN IF totalDelta > movementThreshold
     THEN [ detected |-> TRUE, type |-> movementType, magnitude |-> magnitude,
            delta |-> totalDelta,
            movementHistory |->
              Pushed(movementHistory,
                     [ timestamp |-> t, movement |-> movementType, magnitude |-> magnitude ]) ]
     ELSE [ detected |-> FALSE, type |-> "none", magnitude |-> Sqrt(0),
            delta |-> totalDelta, movementHistory |-> movementHistory ]

FiveMinutes == 5 * 60 * 1000

\* getMovementSummary: the events of the last five minutes, counted, and the
\* newest of them (the tally by type and the average are left out)
getMovementSummary(movementHistory, t) ==
  LET recent == { k \in 1..Len(movementHistory) :
                    movementHistory[k].timestamp > t - FiveMinutes }
  IN [ total_movements |-> Cardinality(recent),
       last_movement |->
         IF recent = {} THEN Null
         ELSE movementHistory[CHOOSE k \in recent : \A j \in recent : j <= k] ]

\* enhancedData: the parsed payload with the movement fields (source: 'monitor'
\* in accelSub; "timer" marks the rows of accelInterval)
EnhancedData(parsedData, movementResult, summary, source) ==
  [ movement_detected |-> movementResult.detected,
    movement_type |-> movementResult.type,
    movement_magnitude |-> movementResult.magnitude,
    movement_delta |-> movementResult.delta,
    movement_summary |-> summary,
    source |-> source ] @@ parsedData

\* parse, detect and build the row value for buf in a session s at time t:
\* the value, and the session with the history detectMovement leaves
Enhance(s, buf, t, source) ==
  LET parsedData == parseAccelerometerData(buf)
      movementResult == detectMovement(CurrentValues(parsedData), s.lastAccelValues,
                                       s.movementHistory, t)
  IN [ value |-> EnhancedData(parsedData, movementResult,
                              getMovementSummary(movementResult.movementHistory, t), source),
       session |-> [s EXCEPT !.movementHistory = movementResult.movementHistory] ]

(***************************************************************************)
(* Motion: the monitor (accelSub), its setTimeout, and the scheduled read  *)
(* (accelInterval) with forceAccelerometerRead                             *)
(***************************************************************************)
\* the raw motion payloads of the session model: a watch lying still, its
\* readings within the movement threshold of each other
MotionPayloads == { << 0, 0, 0, 0 >>, << 1, 0, 0, 0 >> }

\* the stale-data bookkeeping both paths do on an accepted payload
IsStale(s, buf) == buf = s.lastAccelData

StaleChecked(s, buf) ==
  IF IsStale(s, buf)
  THEN [s EXCEPT !.staleDataCount = @ + 1]
  ELSE [s EXCEPT !.staleDataCount = 0, !.lastAccelData = buf]

\* (variant) the threshold met one repetition early
TooStale_OneEarly(s) == s.staleDataCount >= MAX_STALE_DATA - 1

TooStale(s) == s.staleDataCount >= MAX_STALE_DATA

\* history: the session takes the motion payload buf in
Taken(t, buf, reconf) ==
  [t EXCEPT !.last = buf,
            !.run = IF buf = t.last THEN Min(@ + 1, MAX_STALE_DATA + 1) ELSE 1,
            !.reactivated = @ \/ reconf]

\* accelSub's callback for one notification carrying buf
AccelNotify(buf) ==
  /\ session.accelSub /\ session.monitoring /\ Io
  /\ IF now - session.lastAccel < session.accelEveryMs
     THEN UNCHANGED << session, raw_sensor_data, trace >>
     ELSE LET s1 == StaleChecked([session EXCEPT !.lastAccel = now], buf)
              s2 == IF IsStale(session, buf) /\ TooStale(s1)
                    THEN [s1 EXCEPT !.reconfTimeouts = @ + 1]
                    ELSE s1
              e == Enhance(s2, buf, now, "monitor")
          IN /\ s2.reconfTimeouts <= MaxInFlight
             /\ session' = [e.session EXCEPT
                              !.lastAccelValues = CurrentValues(parseAccelerometerData(buf))]
             /\ trace' = Taken(trace, buf, s2.reconfTimeouts > session.reconfTimeouts)
             /\ \E ok \in BOOLEAN :
                  Inserted(ok, session.sleepRecordId, "accelerometer", e.value, now)
  /\ UNCHANGED << envVars, sleep_records, posts, configVars, peripherals, second, homeVars, startCall, stopCall,
                  connectionRetryCount, cbVars >>

\* the setTimeout(..., 100) of accelSub: the write to the control
\* characteristic, the wait, and staleDataCount = 0 unless the write threw
ReconfTimeout ==
  /\ session.reconfTimeouts > 0
  /\ \E ok \in (IF Io THEN BOOLEAN ELSE {FALSE}) :
       session' = [session EXCEPT
                     !.reconfTimeouts = @ - 1,
                     !.staleDataCount =
                        IF session.currentAccelCtl = Undefined \/ ok THEN 0 ELSE @]
  /\ UNCHANGED << envVars, storeVars, configVars, peripherals, second, homeVars, startCall, stopCall,
                  connectionRetryCount, cbVars, trace >>

\* accelInterval's callback, up to await currentAccelChar.read()
AccelTimerFire ==
  /\ session.accelInterval
  /\ Len(accelCbs) < MaxInFlight
  /\ IF now - session.lastAccel < session.accelEveryMs
     THEN UNCHANGED accelCbs
     ELSE accelCbs' = Append(accelCbs, [pc |-> "read", now |-> now, buf |-> << >>,
                                        arrived |-> 0, k |-> 0, saved |-> FALSE])
  /\ UNCHANGED << envVars, storeVars, configVars, peripherals, second, homeVars, startCall, stopCall,
                  connectionRetryCount, session, hrCbs, keepCbs, tasks, trace >>

\* whether one more error makes accelInterval call attemptReconnection
Escalates(s) == s.consecutiveErrors + 1 >= MAX_CONSECUTIVE_ERRORS

\* consecutiveErrors++ and the reconnection at the threshold: the block of
\* the !characteristic?.value branch
NoValueBlock(s) ==
  /\ s.consecutiveErrors < MaxErrors
  /\ session' = [s EXCEPT !.consecutiveErrors = @ + 1]
  /\ IF s.consecutiveErrors + 1 >= MAX_CONSECUTIVE_ERRORS
     THEN /\ CanAttempt
          /\ connectionRetryCount' = attemptReconnection("accelInterval").connectionRetryCount
          /\ tasks' = attemptReconnection("accelInterval").tasks
     ELSE UNCHANGED << connectionRetryCount, tasks >>

\* (variant) the catch giving the timer up once the budget is spent
CatchBlock_GivesUp(s) ==
  /\ s.consecutiveErrors < MaxErrors
  /\ session' = [s EXCEPT !.consecutiveErrors = @ + 1,
                          !.accelInterval = @ /\ ~(Escalates(s) /\ ~BudgetLeft)]
  /\ IF s.consecutiveErrors + 1 >= MAX_CONSECUTIVE_ERRORS
     THEN /\ CanAttempt
          /\ connectionRetryCount' = attemptReconnection("accelInterval").connectionRetryCount
          /\ tasks' = attemptReconnection("accelInterval").tasks
     ELSE UNCHANGED << connectionRetryCount, tasks >>

\* the same block in the catch of accelInterval's try
CatchBlock(s) ==
  /\ s.consecutiveErrors < MaxErrors
  /\ session' = [s EXCEPT !.consecutiveErrors = @ + 1]
  /\ IF s.consecutiveErrors + 1 >= MAX_CONSECUTIVE_ERRORS
     THEN /\ CanAttempt
          /\ connectionRetryCount' = attemptReconnection("accelInterval").connectionRetryCount
          /\ tasks' = attemptReconnection("accelInterval").tasks
     ELSE UNCHANGED << connectionRetryCount, tasks >>

\* the read rejects (catch) or resolves without a value
AccelReadFailed(i) ==
  /\ i \in 1..Len(accelCbs)
  /\ accelCbs[i].pc = "read"
  /\ accelCbs' = Remove(accelCbs, i)
  /\ \/ CatchBlock(session)
     \/ Io /\ NoValueBlock(session)
  /\ trace' = Called([trace EXCEPT !.accelErrs = Min(@ + 1, MAX_CONSECUTIVE_ERRORS)],
                       Escalates(session))
  /\ UNCHANGED << envVars, storeVars, configVars, peripherals, second, homeVars, startCall, stopCall,
                  hrCbs, keepCbs >>

\* await saveSensorData(sleepRecordId, 'accelerometer', enhancedData) of the
\* timer callback: the insert is issued and the callback awaits its outcome
\* (s: the session as the callback finds it)
IssueSave(i, cb, ok, s) ==
  LET e == Enhance(s, cb.buf, now, "timer")
  IN /\ session' = e.session
     /\ Inserted(ok, s.sleepRecordId, "accelerometer", e.value, cb.arrived)
     /\ accelCbs' = Replace(accelCbs, i, [cb EXCEPT !.pc = "save", !.saved = ok])

\* the read resolves with buf
AccelReadReturn(i, buf) ==
  /\ i \in 1..Len(accelCbs)
  /\ accelCbs[i].pc = "read"
  /\ Io
  /\ LET s1 == StaleChecked([session EXCEPT !.consecutiveErrors = 0,
                                            !.lastAccel = accelCbs[i].now], buf)
         cb == [accelCbs[i] EXCEPT !.buf = buf, !.arrived = now]
     IN /\ IF IsStale(session, buf) /\ TooStale(s1)
           THEN /\ session' = s1
                /\ accelCbs' = Replace(accelCbs, i, [cb EXCEPT !.pc = "reconf"])
                /\ UNCHANGED raw_sensor_data
           ELSE \E ok \in BOOLEAN : IssueSave(i, cb, ok, s1)
        /\ trace' = [Taken(trace, buf, IsStale(session, buf) /\ TooStale(s1))
                       EXCEPT !.accelErrs = 0]
  /\ UNCHANGED << envVars, sleep_records, posts, configVars, peripherals, second, homeVars, startCall, stopCall,
                  connectionRetryCount, hrCbs, keepCbs, tasks >>

\* (variant) too much stale data counted toward recovery as well
AccelReconf_Reconnects(i) ==
  /\ i \in 1..Len(accelCbs)
  /\ accelCbs[i].pc = "reconf"
  /\ accelCbs' = Replace(accelCbs, i, [accelCbs[i] EXCEPT !.pc = "force", !.k = 0])
  /\ connectionRetryCount' = attemptReconnection("accelInterval").connectionRetryCount
  /\ tasks' = attemptReconnection("accelInterval").tasks
  /\ trace' = Called(trace, TRUE)
  /\ UNCHANGED << envVars, storeVars, configVars, peripherals, second, homeVars, startCall, stopCall,
                  session, hrCbs, keepCbs >>

\* too much stale data: the write to currentAccelCtl and the wait; a write
\* that throws skips forceAccelerometerRead and the reset of staleDataCount
AccelReconf(i) ==
  /\ i \in 1..Len(accelCbs)
  /\ accelCbs[i].pc = "reconf"
  /\ \E wrote \in (IF Io THEN BOOLEAN ELSE {FALSE}) :
       IF session.currentAccelCtl = Undefined \/ wrote
       THEN /\ accelCbs' = Replace(accelCbs, i, [accelCbs[i] EXCEPT !.pc = "force", !.k = 0])
            /\ UNCHANGED << session, raw_sensor_data >>
       ELSE \E ok \in BOOLEAN : IssueSave(i, accelCbs[i], ok, session)
  /\ UNCHANGED << envVars, sleep_records, posts, configVars, peripherals, second, homeVars, startCall, stopCall,
                  connectionRetryCount, hrCbs, keepCbs, tasks, trace >>

\* one round of forceAccelerometerRead's loop; when the loop ends,
\* staleDataCount = 0 and the timer callback goes on to save its own payload
AccelForceRead(i) ==
  /\ i \in 1..Len(accelCbs)
  /\ accelCbs[i].pc = "force"
  /\ LET cb == accelCbs[i]
         id == session.sleepRecordId
         done(s, data) ==
           LET e == Enhance([s EXCEPT !.staleDataCount = 0], cb.buf, now, "timer")
           IN /\ session' = e.session
              /\ \E ok \in BOOLEAN :
                   /\ raw_sensor_data' =
                        IF ok THEN saveSensorData(data, id, "accelerometer", e.value,
                                                  cb.arrived)
                        ELSE data
                   /\ accelCbs' = Replace(accelCbs, i, [cb EXCEPT !.pc = "save", !.saved = ok])
         again(s) ==
           IF cb.k + 1 < 3
           THEN /\ session' = s
                /\ accelCbs' = Replace(accelCbs, i, [cb EXCEPT !.k = @ + 1])
                /\ UNCHANGED raw_sensor_data
           ELSE done(s, raw_sensor_data)
     IN \/ /\ again(session)     \* the read throws, has no value or the same data
           /\ UNCHANGED trace
        \/ /\ Io
           /\ \E buf \in MotionPayloads \ {session.lastAccelData} :
                LET s1 == [session EXCEPT !.lastAccelData = buf, !.staleDataCount = 0]
                IN /\ \/ done(s1, saveSensorData(raw_sensor_data, id, "accelerometer",
                                                [source |-> "force"] @@ parseAccelerometerData(buf),
                                                now))
                      \/ again(s1)  \* the insert failed
                   /\ trace' = Taken(trace, buf, FALSE)
  /\ UNCHANGED << envVars, sleep_records, posts, configVars, peripherals, second, homeVars, startCall, stopCall,
                  connectionRetryCount, hrCbs, keepCbs, tasks >>

\* the awaited insert settles: the callback ends, or its catch runs
AccelSaveReturn(i) ==
  /\ i \in 1..Len(accelCbs)
  /\ accelCbs[i].pc = "save"
  /\ accelCbs' = Remove(accelCbs, i)
  /\ IF accelCbs[i].saved
     THEN /\ session' = [session EXCEPT
                           !.lastAccelValues =
                              CurrentValues(parseAccelerometerData(accelCbs[i].buf))]
          /\ UNCHANGED << connectionRetryCount, tasks, trace >>
     ELSE /\ CatchBlock(session)
          /\ trace' = Called(trace, Escalates(session))
  /\ UNCHANGED << envVars, storeVars, configVars, peripherals, second, homeVars, startCall, stopCall,
                  hrCbs, keepCbs >>

(***************************************************************************)
(* attemptReconnection after its first await                               *)
(***************************************************************************)
\* the backoff has passed: const rediscoveredDevice = await ensurePineTime()
TaskResolve(i) ==
  /\ i \in 1..Len(tasks)
  /\ tasks[i].pc = "backoff"
  /\ IF ensurePineTime(adapterState, ConnectedDevices) = Null
     THEN /\ tasks' = Remove(tasks, i)
          /\ trace' = Ended(trace, "ensurePineTime", "false")
     ELSE /\ tasks' = Replace(tasks, i, [tasks[i] EXCEPT !.pc = "connect"])
          /\ UNCHANGED trace
  /\ UNCHANGED << envVars, storeVars, configVars, peripherals, second, homeVars, startCall, stopCall,
                  connectionRetryCount, session, accelCbs, hrCbs, keepCbs >>

\* await rediscoveredDevice.connect(): on success the counter is reset; the
\* call may also reject, or resolve with nothing
TaskConnect(i) ==
  /\ i \in 1..Len(tasks)
  /\ tasks[i].pc = "connect"
  /\ \E reconnected \in (IF Io THEN BOOLEAN ELSE {FALSE}) :
       IF reconnected
       THEN /\ connectionRetryCount' = 0
            /\ tasks' = Replace(tasks, i, [tasks[i] EXCEPT !.pc = "discover"])
            /\ trace' = [trace EXCEPT !.attempts = 0]
       ELSE /\ tasks' = Remove(tasks, i)
            /\ \E outcome \in {"false", "throw"} :
                 trace' = Ended(trace, "connect", outcome)
            /\ UNCHANGED connectionRetryCount
  /\ UNCHANGED << envVars, storeVars, configVars, peripherals, second, homeVars, startCall, stopCall,
                  session, accelCbs, hrCbs, keepCbs >>

\* await discoverCharacteristics(rediscoveredDevice): a throw ends the attempt
TaskDiscover(i) ==
  /\ i \in 1..Len(tasks)
  /\ tasks[i].pc = "discover"
  /\ IF discoverCharacteristics(gatt, Io).status = "throw"
     THEN /\ tasks' = Remove(tasks, i)
          /\ trace' = Ended(trace, "discoverCharacteristics", "throw")
     ELSE /\ tasks' = Replace(tasks, i, [tasks[i] EXCEPT !.pc = "enable"])
          /\ UNCHANGED trace
  /\ UNCHANGED << envVars, storeVars, configVars, peripherals, second, homeVars, startCall, stopCall,
                  connectionRetryCount, session, accelCbs, hrCbs, keepCbs >>

\* what a session holds of a connection: the device, the characteristics
\* found on it, and the subscriptions taken on them
Refs ==
  { "currentDevice", "currentAccelChar", "currentHrChar", "currentAccelCtl",
    "accelSub", "hrSub", "disconnectSub" }

\* whether the session holds r: a subscription not removed, a variable set
Holds(s, r) ==
  IF r \in {"accelSub", "hrSub", "disconnectSub"} THEN s[r] ELSE s[r] # Undefined

\* the variables the callbacks passed to attemptReconnection assign
Reassigned == { "currentDevice", "currentAccelChar", "currentHrChar" }

\* onReconnectSuccess and onReconnect, as the caller named by trigger passes them
onReconnectSuccess(s, trigger, found) ==
  LET s1 == [s EXCEPT !.currentDevice = TheWatch,
                      !.currentAccelChar = found.accelChar,
                      !.currentHrChar = found.hrChar,
                      !.replaced = { r \in Refs \ Reassigned : Holds(s, r) }]
  IN IF trigger = "accelInterval" THEN [s1 EXCEPT !.consecutiveErrors = 0] ELSE s1

\* await enableAccelerometer(accelCtl), then the two callbacks; returns true
TaskEnable(i) ==
  /\ i \in 1..Len(tasks)
  /\ tasks[i].pc = "enable"
  /\ session' = onReconnectSuccess(session, tasks[i].trigger,
                                   discoverCharacteristics(gatt, TRUE))
  /\ tasks' = Remove(tasks, i)
  /\ trace' = Ended(trace, "return", "true")
  /\ UNCHANGED << envVars, storeVars, configVars, peripherals, second, homeVars, startCall, stopCall,
                  connectionRetryCount, accelCbs, hrCbs, keepCbs >>

(***************************************************************************)
(* The session model                                                       *)
(***************************************************************************)
\* the phone's radio and the link to the watch
NextEnv ==
  \/ Disconnect
  \/ PowerOff
  \/ PowerOn
  \/ UserConnects

\* HomeScreen: looking the watch up, starting and stopping a collection
NextHome ==
  \/ HomeInit
  \/ \E u \in Users : StartCollectionForUser(u)
  \/ StartCreateSleepRecord
  \/ StartDiscover
  \/ StartEnable
  \/ StartArm
  \/ StopDataCollection
  \/ StopUpdate
  \/ StopPost

\* the heart-rate monitor and scheduled read
NextHeartRate ==
  \/ \E buf \in HrPayloads : HrNotify(buf)
  \/ HrTimerFire
  \/ \E i \in 1..MaxInFlight : HrReadFailed(i)
  \/ \E i \in 1..MaxInFlight, buf \in HrPayloads : HrReadReturn(i, buf)

\* the keep-alive read
NextKeepAlive ==
  \/ KeepAliveFire
  \/ \E i \in 1..MaxInFlight : KeepAliveReturn(i)

\* the motion monitor and scheduled read
NextAccelerometer ==
  \/ \E buf \in MotionPayloads : AccelNotify(buf)
  \/ ReconfTimeout
  \/ AccelTimerFire
  \/ \E i \in 1..MaxInFlight : AccelReadFailed(i)
  \/ \E i \in 1..MaxInFlight, buf \in MotionPayloads : AccelReadReturn(i, buf)
  \/ \E i \in 1..MaxInFlight : AccelReconf(i)
  \/ \E i \in 1..MaxInFlight : AccelForceRead(i)
  \/ \E i \in 1..MaxInFlight : AccelSaveReturn(i)

\* the most calls of attemptReconnection a run of the model follows at once
MaxConcurrent == MaxTasks + 1

\* attemptReconnection in progress
NextReconnection ==
  \/ \E i \in 1..MaxConcurrent : TaskResolve(i)
  \/ \E i \in 1..MaxConcurrent : TaskConnect(i)
  \/ \E i \in 1..MaxConcurrent : TaskDiscover(i)
  \/ \E i \in 1..MaxConcurrent : TaskEnable(i)

Next ==
  \/ Tick \/ NextEnv \/ NextHome \/ NextSecond
  \/ NextHeartRate \/ NextKeepAlive \/ NextAccelerometer \/ NextReconnection

\* the whole program
Spec == Init /\ [][Next]_vars

(***************************************************************************)
(* Parts of the program, each checked on its own.  The heart-rate channel  *)
(* and the motion channel share no variable of the session but the         *)
(* references to the device; the lifecycle part leaves the timers and      *)
(* monitors silent.                                                        *)
(***************************************************************************)
\* a watch with every channel, and one without a control characteristic
FullTable == GattTable(TRUE, TRUE, "3002", TRUE, TRUE, FALSE)

NoCtlTable == GattTable(TRUE, TRUE, "sibling", TRUE, TRUE, TRUE)

\* start, stop, discovery and reconnection on any watch, radio on or off
InitLife == InitOf({"PoweredOn", "PoweredOff"}, BOOLEAN, {<< >>}, GattTables, {1})

NextLife == NextEnv \/ NextHome \/ NextKeepAlive \/ NextReconnection

SpecLife == InitLife /\ [][NextLife]_vars

\* the first collection after the app is launched
FirstStart(u) == sleep_records = << >> /\ StartCollectionForUser(u)

NextStart ==
  \/ HomeInit
  \/ \E u \in Users : FirstStart(u)
  \/ StartCreateSleepRecord
  \/ StartDiscover
  \/ StartEnable
  \/ StartArm

NextStop ==
  \/ StopDataCollection
  \/ StopUpdate
  \/ StopPost

\* the first session while it collects, sampling heart rate
InitHr == InitOf({"PoweredOn"}, {TRUE}, {<< >>}, {FullTable}, Frequencies)

NextHr == Tick \/ NextStart \/ NextHeartRate

SpecHr == InitHr /\ [][NextHr]_vars

\* the first session, sampling motion while every read of the timer resolves
InitMotion == InitOf({"PoweredOn"}, {TRUE}, {<< >>}, {FullTable}, Frequencies)

NextMotion ==
  \/ Tick \/ NextStart
  \/ \E buf \in MotionPayloads : AccelNotify(buf)
  \/ ReconfTimeout
  \/ AccelTimerFire
  \/ \E i \in 1..MaxInFlight, buf \in MotionPayloads : AccelReadReturn(i, buf)
  \/ \E i \in 1..MaxInFlight : AccelReconf(i)
  \/ \E i \in 1..MaxInFlight : AccelForceRead(i)
  \/ \E i \in 1..MaxInFlight : AccelSaveReturn(i)

SpecMotion == InitMotion /\ [][NextMotion]_vars

\* a sensor that is stuck
StuckPayloads == { << 0, 0, 0, 0 >> }

\* the first session and its stop on a watch whose sensor is stuck: the
\* motion monitor, its pending reconfiguration and the reads of the timer up
\* to the stale test
NextTeardown ==
  \/ Tick \/ NextStart \/ NextStop
  \/ \E buf \in StuckPayloads : AccelNotify(buf)
  \/ ReconfTimeout
  \/ AccelTimerFire
  \/ \E i \in 1..MaxInFlight, buf \in StuckPayloads : AccelReadReturn(i, buf)
  \/ \E i \in 1..MaxInFlight : AccelSaveReturn(i)

SpecTeardown == InitMotion /\ [][NextTeardown]_vars

\* the first session, its motion timer alone, reads failing or not, and the
\* reconnections the timer starts
NextRecovery ==
  \/ Tick \/ NextStart
  \/ AccelTimerFire
  \/ \E i \in 1..MaxInFlight : AccelReadFailed(i)
  \/ \E i \in 1..MaxInFlight, buf \in MotionPayloads : AccelReadReturn(i, buf)
  \/ \E i \in 1..MaxInFlight : AccelSaveReturn(i)
  \/ NextReconnection

SpecRecovery == InitMotion /\ [][NextRecovery]_vars

\* the first session, its link lost and found again, the keep-alive reads and
\* the reconnections they start
InitReconnect == InitOf({"PoweredOn"}, {TRUE}, {<< >>}, {FullTable, NoCtlTable}, {1})

NextReconnect == NextEnv \/ NextStart \/ NextKeepAlive \/ NextReconnection

SpecReconnect == InitReconnect /\ [][NextReconnect]_vars

\* the first start on watches whose motion service holds none, one or two
\* characteristics next to the data one
SiblingTables ==
  { GattTable(TRUE, TRUE, k, TRUE, TRUE, upper) :
      k \in CtlKinds \cup PairKinds, upper \in BOOLEAN }

InitSiblings == InitOf({"PoweredOn"}, {TRUE}, {<< >>}, SiblingTables, {1})

NextSiblings == NextStart

SpecSiblings == InitSiblings /\ [][NextSiblings]_vars

\* the first session and its stop, the link lost and found again, the
\* keep-alive reads, and the calls of attemptReconnection the disconnect
\* listener and the keep-alive start, two of them followed at once
InitConcurrent ==
  InitWith({"PoweredOn"}, {TRUE}, {<< >>}, {FullTable}, {1}, MaxConcurrent)

NextConcurrent ==
  \/ Disconnect \/ UserConnects
  \/ NextStart \/ NextStop
  \/ NextKeepAlive \/ NextReconnection

SpecConcurrent == InitConcurrent /\ [][NextConcurrent]_vars

\* the first start, a further start begun while it is in progress, and stop
InitOverlap == InitOf({"PoweredOn"}, {TRUE}, {<< >>}, {FullTable}, {1})

NextOverlap == NextStart \/ NextSecond \/ NextStop \/ Disconnect \/ UserConnects

SpecOverlap == InitOverlap /\ [][NextOverlap]_vars

\* the characters and the texts typed into the two fields
TextChars == { "0", "2", "-", " ", "a" }

MaxText == 2

Texts == UNION { [1..n -> TextChars] : n \in 0..MaxText }

\* the intervals as they are on launch, saved from any two texts, and the
\* first start with what was saved last
InitConfig == InitOf({"PoweredOn"}, {TRUE}, {<< >>}, {FullTable}, {90})

NextConfig ==
  \/ \E localAccel \in Texts, localHR \in Texts : handleSave(localAccel, localHR)
  \/ NextStart

SpecConfig == InitConfig /\ [][NextConfig]_vars

\* motion payloads of every kind the decoder tells apart: the three stuck
\* signatures, 4-byte payloads next to them and with negative lanes, 6-byte
\* payloads all zero and with negative lanes, and other lengths
DecodePayloads ==
  { << 70, 1, 0, 0 >>, << 206, 0, 0, 0 >>, << 0, 0, 0, 0 >>,
    << 70, 1, 0, 1 >>, << 50, 0, 0, 0 >>, << 255, 128, 127, 1 >>,
    << 0, 0, 0, 0, 0, 0 >>, << 0, 128, 255, 255, 52, 18 >>,
    << 7 >>, << 1, 2, 3, 4, 5 >> }

\* the first session, configured to sample every 5 seconds, with the motion
\* monitor alone, the watch sending payloads of every kind
InitDecode == InitOf({"PoweredOn"}, {TRUE}, {<< >>}, {FullTable}, {5})

NextDecode ==
  \/ Tick \/ NextStart
  \/ \E buf \in DecodePayloads : AccelNotify(buf)

SpecDecode == InitDecode /\ [][NextDecode]_vars

\* the first session under a configuration of 1, 2 or 90 seconds (the last is
\* the one the app ships with), armed and stopped
InitPeriods == InitOf({"PoweredOn"}, {TRUE}, {<< >>}, {FullTable}, {1, 2, 90})

NextPeriods == Tick \/ NextStart \/ NextStop

SpecPeriods == InitPeriods /\ [][NextPeriods]_vars

\* motion payloads a still wrist, a rolling, a tilting and a turning one send
MovementPayloads ==
  { << 0, 0, 0, 0 >>, << 5, 0, 0, 0 >>, << 0, 5, 0, 0 >>, << 0, 0, 5, 0 >>, << 0, 0, 0, 5 >> }

\* a movement history of n events, one a second, the newest a second ago (the
\* clock of the model has no origin: the events of a long history lie before 0)
History(n) ==
  [ k \in 1..n |->
      [ timestamp |-> 10 * MsPerSecond - (n - k + 1) * MsPerSecond,
        movement |-> "roll", magnitude |-> Sqrt(25) ] ]

\* empty, one event, one short of the capacity, full
Histories ==
  { History(n) : n \in {0, 1, MAX_MOVEMENT_HISTORY - 1, MAX_MOVEMENT_HISTORY} }

\* the session of user 7 as startCollection arms it on a watch with every
\* channel, at one sample a second, having recorded the movements of h since
CollectingSession(h) ==
  LET found == discoverCharacteristics(FullTable, TRUE)
  IN [ NoSession EXCEPT
         !.armed = TRUE, !.sleepRecordId = 1,
         !.accelEveryMs = MsPerSecond, !.hrEveryMs = MsPerSecond,
         !.currentDevice = TheWatch,
         !.currentAccelChar = found.accelChar,
         !.currentHrChar = found.hrChar,
         !.currentAccelCtl = found.accelCtl,
         !.keepAlive = TRUE, !.accelInterval = TRUE, !.manualHrInterval = TRUE,
         !.accelPeriod = AccelPeriod(MsPerSecond), !.hrPeriod = HrPeriod(MsPerSecond),
         !.accelSub = TRUE, !.hrSub = TRUE, !.disconnectSub = TRUE,
         !.monitoring = TRUE,
         !.movementHistory = h ]

\* a collection in progress: the state StartArm leaves, with the movement
\* history drawn from Histories and the clock back at 10 s
InitMovement ==
  /\ now = 10 * MsPerSecond
  /\ adapterState = "PoweredOn"
  /\ gatt = FullTable
  /\ linkUp = TRUE
  /\ peripherals = << >>
  /\ sleep_records =
       << [ id |-> 1, user_id |-> 7,
            created_at |-> 10 * MsPerSecond - MAX_MOVEMENT_HISTORY * MsPerSecond,
            ended_at |-> 0, updates |-> 0 ] >>
  /\ raw_sensor_data = [t \in {"accelerometer", "heart_rate"} |-> << >>]
  /\ posts = << >>
  /\ accelFrequency = 1
  /\ followed = MaxTasks
  /\ hrFrequency = 1
  /\ connectedDevice = TheWatch
  /\ isCollecting = TRUE
  /\ sleepRecordId = 1
  /\ cleanupRef = TRUE
  /\ collectionSubscriptions = TRUE
  /\ alerts = "none"
  /\ startCall = [ IdleStart EXCEPT !.userId = 7, !.sleepRecordId = 1, !.bleCalls = 1,
                                    !.adapterAtCall = "PoweredOn", !.result = "resolved",
                                    !.writes = 1 + 2 * Len(commands) ]
  /\ stopCall = IdleStop
  /\ second = NoSecond
  /\ connectionRetryCount = 0
  /\ \E h \in Histories : session = CollectingSession(h)
  /\ accelCbs = << >>
  /\ hrCbs = << >>
  /\ keepCbs = << >>
  /\ tasks = << >>
  /\ trace = NoTrace

\* the motion monitor on a wrist that moves
NextMovement ==
  \/ Tick
  \/ \E buf \in MovementPayloads : AccelNotify(buf)

SpecMovement == InitMovement /\ [][NextMovement]_vars

\* the values of the library's State
AdapterStates ==
  { "Unknown", "Resetting", "Unsupported", "Unauthorized", "PoweredOff", "PoweredOn" }

MaxPeripherals == 2

\* the lists of at most MaxPeripherals other devices
DeviceLists ==
  UNION { [1..n -> OtherDevices] : n \in 0..MaxPeripherals }

\* the app launched with the adapter in any state and other devices connected:
\* the lookup of the watch, the radio and the link changing under it
InitResolver == InitOf(AdapterStates, BOOLEAN, DeviceLists, {FullTable}, {1})

NextResolver == NextEnv \/ HomeInit

SpecResolver == InitResolver /\ [][NextResolver]_vars

(***************************************************************************)
(* Properties                                                              *)
(***************************************************************************)
Channels == {"accelerometer", "heart_rate"}

LastRow(rows) == rows[Len(rows)]

\* the configured interval of a channel, as the session holds it
Interval(t) == IF t = "accelerometer" THEN session.accelEveryMs ELSE session.hrEveryMs

HrRows == raw_sensor_data["heart_rate"]

\* C1 (as claimed): on each channel, a sample is persisted only from a payload
\* that arrived at least the channel's interval after the payload of the sample
\* persisted before it, whichever of the monitor, the timer and the forced
\* read delivered the two.
C1_Paced ==
  [][ \A t \in Channels :
        (raw_sensor_data[t] # << >> /\ raw_sensor_data'[t] # raw_sensor_data[t])
          => LastRow(raw_sensor_data'[t]).arrived - LastRow(raw_sensor_data[t]).arrived
               >= Interval(t) ]_vars

\* C2: every heart-rate sample that reaches the store, from the monitor or from
\* the manual read, comes from a payload of at least 2 bytes and carries a bpm
\* in 1..249; payloads that are shorter, or whose bpm is 0 or 250 and more,
\* leave no row.
C2_HrRange ==
  \A k \in 1..Len(HrRows) :
    /\ Len(HrRows[k].value.raw_hex) >= 2
    /\ HrRows[k].value.heartRate \in 1..249

\* a paced payload was dropped by the test, and a valid one of the manual read is stored
C2_Witness ==
  /\ trace.hrDropped
  /\ HrRows # << >>
  /\ LastRow(HrRows).value.source = "manual_read"

\* the bpm of a payload of at least 2 bytes: 16 bits from byte 1 when bit 0 of
\* the flags is set and the payload has the two bytes, else byte 1
DecodedBpm(buf) ==
  IF buf[1] % 2 = 1 /\ Len(buf) >= 3 THEN buf[2] + 256 * buf[3] ELSE buf[2]

\* hr is the bpm as the claim words it: with bit 0 set, the 16-bit field
\* starting at byte 1, which a 2-byte payload does not hold
IsClaimedBpm(buf, hr) ==
  IF buf[1] % 2 = 1
  THEN Len(buf) >= 3 /\ hr = buf[2] + 256 * buf[3]
  ELSE hr = buf[2]

\* the row hrSub stores for the payload [0x00, 0x3C]
Row60 == Row(session.sleepRecordId, "heart_rate", HrSample(<< 0, 60 >>, "monitor"), now)

PostsFor(id) == Cardinality({ k \in 1..Len(posts) : posts[k].sleep_record_id = id })

\* C4 (as claimed): however often stop is called, a session record receives at
\* most one ended_at update and at most one metrics POST.
C4_StopIdempotent ==
  \A k \in 1..Len(sleep_records) :
    sleep_records[k].updates <= 1 /\ PostsFor(k) <= 1

\* C5 (as claimed): while stop closes the record of a session that was active,
\* no timer, subscription or listener of that session is left to call back.
C5_TornDown ==
  (stopCall.wasActive /\ stopCall.pc # "idle") => Armed(session) = {}

\* C6 (as claimed): a start called while the adapter is not PoweredOn creates
\* no session record.
C6_NoRecordWhenOff ==
  startCall.adapterAtCall = "PoweredOff" => startCall.sleepRecordId = 0

\* C7: no BLE call of a start precedes its session record; a start whose record
\* cannot be created rejects without a BLE call; a start whose discovery throws
\* rejects with nothing armed and nothing written, its record is not the one
\* HomeScreen holds, and only the record HomeScreen holds is ever updated, so
\* the orphan is never closed.
C7_RecordFirst ==
  /\ []( /\ (startCall.bleCalls > 0 \/ startCall.writes > 0) => startCall.sleepRecordId # 0
         /\ (startCall.result = "rejected" /\ startCall.sleepRecordId = 0)
              => startCall.bleCalls = 0
         /\ (startCall.result = "rejected" /\ startCall.sleepRecordId # 0)
              => /\ startCall.bleCalls = 1
                 /\ startCall.writes = 0
                 /\ Armed(session) = {}
                 /\ sleepRecordId # startCall.sleepRecordId
                 /\ sleep_records[startCall.sleepRecordId].updates = 0
                 /\ sleep_records[startCall.sleepRecordId].ended_at = 0 )
  /\ [][ /\ \A k \in 1..Len(sleep_records) :
              sleep_records'[k] # sleep_records[k] => k = sleepRecordId
         /\ sleepRecordId' # sleepRecordId
              => (startCall'.result = "resolved" /\ sleepRecordId' = startCall.sleepRecordId)
       ]_vars

\* the second start failed in discovery after the first session was stopped
\* twice: its record is open, the first one was closed
C7_Witness ==
  /\ startCall.result = "rejected"
  /\ startCall.sleepRecordId = 2
  /\ sleep_records[2].updates = 0
  /\ sleep_records[1].updates > 0
  /\ stopCall.pc = "idle"

\* equal ignoring case
SameUuid(a, b) == a.head = b.head /\ a.tail = b.tail

\* the service of that UUID holds a characteristic of that UUID
HasChar(services, svc, chr) ==
  \E i \in 1..Len(services) :
    /\ SameUuid(services[i].uuid, svc)
    /\ \E j \in 1..Len(services[i].characteristics) :
         SameUuid(services[i].characteristics[j].uuid, chr)

\* both services and both data characteristics are on the device
RequiredPresent(services) ==
  /\ \E i \in 1..Len(services) : SameUuid(services[i].uuid, MOTION_SERVICE_UUID)
  /\ \E i \in 1..Len(services) : SameUuid(services[i].uuid, HR_SERVICE_UUID)
  /\ HasChar(services, MOTION_SERVICE_UUID, ACCEL_CHAR_UUID)
  /\ HasChar(services, HR_SERVICE_UUID, HR_CHAR_UUID)

\* the motion service holds nothing but the data characteristic
NoSibling(services) ==
  \A i \in 1..Len(services) :
    SameUuid(services[i].uuid, MOTION_SERVICE_UUID)
      => \A j \in 1..Len(services[i].characteristics) :
           SameUuid(services[i].characteristics[j].uuid, ACCEL_CHAR_UUID)

\* C8 (amended): when the enumeration calls resolve, discovery throws exactly
\* when the motion service, the heart-rate service, the motion data
\* characteristic or the heart-rate data characteristic is absent, matched
\* ignoring case; without a control characteristic it returns accelCtl
\* undefined, and the session is armed without a write to the watch.
C8_Discovery ==
  /\ []( /\ discoverCharacteristics(gatt, TRUE).status = "throw" <=> ~RequiredPresent(gatt)
         /\ (RequiredPresent(gatt) /\ NoSibling(gatt))
              => discoverCharacteristics(gatt, TRUE).accelCtl = Undefined )
  /\ []((startCall.result = "resolved" /\ session.currentAccelCtl = Undefined)
          => (startCall.writes = 0 /\ RequiredPresent(gatt)))
  /\ [][ (StartDiscover /\ Io)
           => (startCall'.result = "rejected" <=> ~RequiredPresent(gatt)) ]_vars

\* a session armed on a watch without a control characteristic, nothing written
C8_Witness ==
  /\ startCall.result = "resolved"
  /\ session.currentAccelCtl = Undefined
  /\ NoSibling(gatt)
  /\ session.accelInterval /\ session.accelSub
  /\ startCall.writes = 0

\* C8 (as claimed): a start is rejected by discovery only when one of the two
\* services or of the two data characteristics is absent.
C8_OnlyWhenAbsent ==
  (startCall.result = "rejected" /\ startCall.sleepRecordId # 0) => ~RequiredPresent(gatt)

\* C9 (as claimed): the motion timer starts a reconnection attempt only with
\* its third consecutive failed read.
C9_ThresholdOnly ==
  [][ connectionRetryCount' > connectionRetryCount
        => trace'.accelErrs >= MAX_CONSECUTIVE_ERRORS ]_vars

ReactivationStarted ==
  \/ session'.reconfTimeouts > session.reconfTimeouts
  \/ \E i \in 1..Len(accelCbs) :
       /\ i <= Len(accelCbs')
       /\ accelCbs[i].pc = "read" /\ accelCbs'[i].pc = "reconf"

\* a step in which the session takes a motion payload in for the n-th time in a row
NthInARow(n) == trace'.run = n /\ trace.run = n - 1

AttemptStarts == Len(tasks') > Len(tasks)

\* connect() resolves with the device in this step
ConnectSucceeds ==
  \E i \in 1..Len(tasks) :
    i <= Len(tasks') /\ tasks[i].pc = "connect" /\ tasks'[i].pc = "discover"

\* C13 (as claimed): after a successful reconnection the session holds nothing
\* of the connection it has replaced: the device, the three characteristics and
\* the subscriptions are those of the newly resolved peripheral.
C13_AllSwapped == session.replaced = {}

C16_NeverRejects ==
  /\ [](trace.lastResult.value \in {"none", "false", "true"})
  /\ [](trace.lastResult.at # "return" => trace.lastResult.value # "true")
  /\ [][ (startCall.result = "resolved" /\ isCollecting /\ isCollecting')
            => alerts' = alerts ]_vars

\* an attempt has failed after connect() had resolved: the rediscovery threw
C16_Witness ==
  /\ trace.lastResult = [at |-> "discoverCharacteristics", value |-> "false"]
  /\ startCall.result = "resolved"
  /\ tasks = << >>

\* the retry budget is spent and no attempt is in progress
Exhausted == connectionRetryCount >= MAX_RETRY_ATTEMPTS /\ tasks = << >>

RECURSIVE LittleEndian(_)
LittleEndian(bytes) ==
  IF bytes = << >> THEN 0 ELSE Head(bytes) + 256 * LittleEndian(Tail(bytes))

\* w is the sweep the activation makes on a control characteristic: the reset
\* write, then for each command in list order an acknowledged and an
\* unacknowledged write of its bytes, then nothing, or the one default write
\* that is made when no command write resolved
IsSweep(w, anyResolved) ==
  /\ Len(w) = 1 + 2 * Len(commands) + (IF anyResolved THEN 0 ELSE 1)
  /\ w[1] = [mode |-> "withResponse", payload |-> << 0 >>]
  /\ \A k \in 1..Len(commands) :
       /\ w[2 * k].mode = "withResponse"
       /\ w[2 * k + 1].mode = "withoutResponse"
       /\ w[2 * k].payload = w[2 * k + 1].payload
       /\ Len(w[2 * k].payload) = (IF commands[k] > 255 THEN 2 ELSE 1)
       /\ \A j \in 1..Len(w[2 * k].payload) : w[2 * k].payload[j] \in 0..255
       /\ LittleEndian(w[2 * k].payload) = commands[k]
  /\ ~anyResolved => w[Len(w)] = [mode |-> "withResponse", payload |-> << 1, 2, 3 >>]

\* C17: the activation never fails the start and ends: with a control
\* characteristic it attempts the reset write and then, for every command in
\* list order, an acknowledged and an unacknowledged write, whether or not any
\* write resolves (followed by one default write when none did); without one
\* it writes nothing; in both cases startCollection goes on to arm the session.
C17_Activation ==
  /\ [](startCall.pc = "enableAccelerometer" =>
          \A ok \in BOOLEAN :
            IF session.currentAccelCtl = Undefined
            THEN enableAccelerometer(session.currentAccelCtl, ok) = << >>
            ELSE IsSweep(enableAccelerometer(session.currentAccelCtl, ok), ok))
  /\ [][ (startCall.pc = "enableAccelerometer" /\ startCall' # startCall) =>
            /\ startCall'.pc = "arm"
            /\ startCall'.result = "none"
            /\ startCall'.writes \in
                  (IF session.currentAccelCtl = Undefined THEN {0}
                   ELSE {1 + 2 * Len(commands), 2 + 2 * Len(commands)}) ]_vars

\* the activation has run on a control characteristic with no write resolving
C17_Witness ==
  /\ startCall.pc = "arm"
  /\ session.currentAccelCtl # Undefined
  /\ startCall.writes = 2 + 2 * Len(commands)

\* C18 (as claimed): on each channel the inserts are issued in the order in
\* which the payloads were accepted: a row is never inserted after a row whose
\* payload arrived later.
C18_ArrivalOrder ==
  [][ \A t \in Channels :
        (raw_sensor_data'[t] # raw_sensor_data[t] /\ raw_sensor_data[t] # << >>)
          => LastRow(raw_sensor_data'[t]).arrived >= LastRow(raw_sensor_data[t]).arrived ]_vars

\* C19 (as claimed): when an insert of the motion timer fails, the consecutive
\* error counter keeps its value and no reconnection attempt starts.
C19_SaveFailureNotCounted ==
  [][ \A i \in 1..Len(accelCbs) :
        (accelCbs[i].pc = "save" /\ ~accelCbs[i].saved /\ accelCbs' = Remove(accelCbs, i))
          => /\ session'.consecutiveErrors = session.consecutiveErrors
             /\ connectionRetryCount' = connectionRetryCount
             /\ tasks' = tasks ]_vars

\* a and b are the same letter, in either case
SameLetter(a, b) ==
  \/ a = b
  \/ \E k \in 1..Len(UpperCaseLetters) : {a, b} = {UpperCaseLetters[k], LowerCaseLetters[k]}

\* the name of d holds the fragment at some offset, ignoring case
NameHolds(d, fragment) ==
  /\ d.name # Null
  /\ \E i \in 0..(Len(d.name) - Len(fragment)) :
       \A j \in 1..Len(fragment) : SameLetter(d.name[i + j], fragment[j])

TargetNames ==
  { << "p", "i", "n", "e", "t", "i", "m", "e" >>,
    << "p", "i", "n", "e", " ", "t", "i", "m", "e" >>,
    << "i", "n", "f", "i", "n", "i", "t", "i", "m", "e" >> }

IsTarget(d) == \E f \in TargetNames : NameHolds(d, f)

\* C20: with the adapter in any state but PoweredOn ensurePineTime gives null
\* whatever devices are connected; with it PoweredOn it gives the first device
\* of the list whose name holds 'pinetime', 'pine time' or 'infinitime'
\* ignoring case, and null when the list has none; the lookup changes neither
\* the link nor the list of connected devices.
C20_Resolver ==
  /\ [](adapterState # "PoweredOn" =>
          \A c \in DeviceLists :
            /\ ensurePineTime(adapterState, c) = Null
            /\ ensurePineTime(adapterState, c \o << TheWatch >>) = Null)
  /\ [](adapterState = "PoweredOn" =>
          LET c == ConnectedDevices
              r == ensurePineTime(adapterState, c)
          IN IF \E k \in 1..Len(c) : IsTarget(c[k])
             THEN \E k \in 1..Len(c) :
                    /\ r = c[k]
                    /\ IsTarget(c[k])
                    /\ \A j \in 1..(k - 1) : ~IsTarget(c[j])
             ELSE r = Null)
  /\ [][ connectedDevice' # connectedDevice =>
            /\ connectedDevice' = ensurePineTime(adapterState, ConnectedDevices)
            /\ linkUp' = linkUp
            /\ peripherals' = peripherals
            /\ adapterState' = adapterState ]_vars

\* the lookup has passed over a band and taken the device named
\* "My Pine Time", listed before the watch
C20_Witness ==
  /\ linkUp
  /\ Len(peripherals) = 2
  /\ ~IsTarget(peripherals[1])
  /\ connectedDevice = peripherals[2]
  /\ connectedDevice.name # Null
  /\ toLowerCase(connectedDevice.name) # connectedDevice.name

\* v is the two's-complement reading of the unsigned u on that many bits
IsSigned(v, u, bits) ==
  /\ v >= -(2 ^ (bits - 1))
  /\ v < 2 ^ (bits - 1)
  /\ (u - v) % (2 ^ bits) = 0

\* the bytes the decoders are examined on, and the payloads made of them
LaneBytes == { 0, 1, 70, 128, 206 }

WordBytes == { 0, 128, 255 }

FourBytePayloads == [1..4 -> LaneBytes]

SixBytePayloads == [1..6 -> WordBytes]

OtherPayloads == UNION { [1..n -> {0, 255}] : n \in {0, 1, 2, 3, 5, 7} }

\* the signed lanes of the stuck-sensor signatures
StuckSignatures == { << 70, 1, 0, 0 >>, << -50, 0, 0, 0 >>, << 0, 0, 0, 0 >> }

IsStuck(buf) ==
  \E sig \in StuckSignatures : \A k \in 1..4 : IsSigned(sig[k], buf[k], 8)

\* r is what the claim says of the decoding of the 4-byte payload buf
IsFourByteDecoding(r, buf) ==
  IF IsStuck(buf)
  THEN /\ "is_constant" \in DOMAIN r /\ r.is_constant = TRUE
       /\ r.parsing_method = "alternative_16bit"
       /\ IsSigned(r.x, buf[1] + 256 * buf[2], 16)
       /\ IsSigned(r.y, buf[3] + 256 * buf[4], 16)
  ELSE /\ "is_constant" \notin DOMAIN r
       /\ r.parsing_method = "primary"
       /\ IsSigned(r.x, buf[1], 8) /\ IsSigned(r.y, buf[2], 8)
       /\ IsSigned(r.z, buf[3], 8) /\ IsSigned(r.w, buf[4], 8)

MotionRows == raw_sensor_data["accelerometer"]

\* the fields of a stored motion row that the decoder produced
Decoded(row) == [ f \in DOMAIN parseAccelerometerData(row.value.raw_hex) |-> row.value[f] ]

\* C21: a 4-byte payload whose signed lanes are (70,1,0,0), (-50,0,0,0) or
\* (0,0,0,0) is decoded with is_constant = true, parsing_method
\* 'alternative_16bit' and the two 16-bit little-endian words as x and y; any
\* other 4-byte payload with parsing_method 'primary', the four signed lanes as
\* x, y, z, w and no is_constant; and the rows stored from 4-byte payloads
\* carry exactly that.
C21_StuckSignature ==
  /\ \A buf \in FourBytePayloads : IsFourByteDecoding(parseAccelerometerData(buf), buf)
  /\ \A k \in 1..Len(MotionRows) :
       Len(MotionRows[k].value.raw_hex) = 4
         => IsFourByteDecoding(MotionRows[k].value, MotionRows[k].value.raw_hex)

\* a stuck payload with a negative lane, (-50,0,0,0), is stored as suspect with
\* the unsigned word 206 as x
C21_Witness ==
  /\ MotionRows # << >>
  /\ LastRow(MotionRows).value.raw_hex = << 206, 0, 0, 0 >>
  /\ LastRow(MotionRows).value.is_constant
  /\ LastRow(MotionRows).value.x = 206

\* r is what the claim says of the decoding of the 6-byte payload buf
IsSixByteDecoding(r, buf) ==
  /\ IsSigned(r.x, buf[1] + 256 * buf[2], 16)
  /\ IsSigned(r.y, buf[3] + 256 * buf[4], 16)
  /\ IsSigned(r.z, buf[5] + 256 * buf[6], 16)
  /\ r.is_valid = (\E k \in 1..6 : buf[k] # 0)

\* C22: a 6-byte payload is decoded as three signed 16-bit little-endian
\* lanes, with is_valid false exactly when the three are zero; the all-zero
\* payload is returned like any other, and the monitor stores it.
C22_SixBytes ==
  /\ \A buf \in SixBytePayloads : IsSixByteDecoding(parseAccelerometerData(buf), buf)
  /\ \A k \in 1..Len(MotionRows) :
       Len(MotionRows[k].value.raw_hex) = 6
         => IsSixByteDecoding(MotionRows[k].value, MotionRows[k].value.raw_hex)

\* the all-zero 6-byte payload is stored, marked invalid
C22_Witness ==
  /\ MotionRows # << >>
  /\ LastRow(MotionRows).value.raw_hex = << 0, 0, 0, 0, 0, 0 >>
  /\ LastRow(MotionRows).value.is_valid = FALSE
  /\ LastRow(MotionRows).value.x = 0

ParsingMethods == { "primary", "alternative_16bit", "16bit", "unknown" }

\* r carries its interpretation and the payload it was decoded from
IsAudited(r, buf) ==
  /\ "parsing_method" \in DOMAIN r /\ r.parsing_method \in ParsingMethods
  /\ "raw_hex" \in DOMAIN r /\ r.raw_hex = buf
  /\ Len(buf) \notin {4, 6} => (r.parsing_method = "unknown" /\ r.is_valid = FALSE)
  /\ r.parsing_method = "unknown" => Len(buf) \notin {4, 6}

\* C23: parseAccelerometerData gives a record for a payload of any length,
\* the empty one included; the record carries parsing_method and the raw
\* payload; for a length other than 4 and 6 the method is 'unknown' and
\* is_valid is false; and every stored motion row carries the fields of the
\* decoding of its payload.
C23_Total ==
  /\ \A buf \in FourBytePayloads \cup SixBytePayloads \cup OtherPayloads :
       IsAudited(parseAccelerometerData(buf), buf)
  /\ \A k \in 1..Len(MotionRows) :
       /\ IsAudited(MotionRows[k].value, MotionRows[k].value.raw_hex)
       /\ Decoded(MotionRows[k]) = parseAccelerometerData(MotionRows[k].value.raw_hex)

\* a payload of 5 bytes is stored with parsing_method 'unknown'
C23_Witness ==
  /\ MotionRows # << >>
  /\ Len(LastRow(MotionRows).value.raw_hex) = 5
  /\ LastRow(MotionRows).value.parsing_method = "unknown"
  /\ LastRow(MotionRows).value.is_valid = FALSE

\* the whole seconds the configuration screen can be given
MaxSeconds == 120

IsPushedOnto(new, old) ==
  LET shift == IF Len(old) = MAX_MOVEMENT_HISTORY THEN 1 ELSE 0
  IN /\ Len(new) = Len(old) + 1 - shift
     /\ \A k \in 1..(Len(new) - 1) : new[k] = old[k + shift]
     /\ new[Len(new)].timestamp = now

\* C25: the movement history never holds more than MAX_MOVEMENT_HISTORY
\* events; a detected movement is appended as the newest event and, when the
\* history was full, the oldest event is the one dropped; and the step that
\* detects a movement is the step that issues the insert of its sample, which
\* the store keeps with the movement in it unless the insert fails.
C25_BoundedHistory ==
  /\ [](Len(session.movementHistory) <= MAX_MOVEMENT_HISTORY)
  /\ [][ session'.movementHistory # session.movementHistory =>
            /\ IsPushedOnto(session'.movementHistory, session.movementHistory)
            /\ \/ MotionRows' = MotionRows
               \/ /\ LastRow(MotionRows').value.movement_detected
                  /\ LastRow(MotionRows').arrived = now
                  /\ LastRow(MotionRows').value.movement_summary.last_movement
                       = LastRow(session'.movementHistory) ]_vars
  /\ [][ (session'.lastAccel # session.lastAccel /\ MotionRows' # MotionRows) =>
            /\ LastRow(MotionRows').value.raw_hex = session'.lastAccelData
            /\ LastRow(MotionRows').value.movement_detected
                  = (session'.movementHistory # session.movementHistory) ]_vars

\* a movement was detected on a full history: the event of 100 s ago is gone,
\* the new one is the newest, and the sample is stored
C25_Witness ==
  /\ Len(session.movementHistory) = MAX_MOVEMENT_HISTORY
  /\ session.movementHistory[1] = History(MAX_MOVEMENT_HISTORY)[2]
  /\ LastRow(session.movementHistory).timestamp >= 10 * MsPerSecond
  /\ MotionRows # << >>
  /\ LastRow(MotionRows).value.movement_detected
  /\ LastRow(MotionRows).value.movement_summary.total_movements = MAX_MOVEMENT_HISTORY

\* the subscriptions startCollection takes on the device and its characteristics
Subscriptions == { "accelSub", "hrSub", "disconnectSub" }

\* the last call of attemptReconnection has returned true, no call is in
\* progress and the link it has made is up: the session is on its new peripheral
OnNewPeripheral ==
  /\ session.armed /\ Io /\ tasks = << >>
  /\ trace.lastResult = [at |-> "return", value |-> "true"]

\* C26 (as claimed): at every moment of an active session, also after a
\* reconnection has replaced the peripheral, the two monitors and the disconnect
\* listener are on the session's live peripheral and characteristics: none of
\* them is left on the connection that was replaced, and the payloads the live
\* peripheral pushes reach the monitors.
C26_SubscriptionsLive ==
  session.armed =>
    /\ Subscriptions \cap session.replaced = {}
    /\ OnNewPeripheral => session.monitoring

\* a call of attemptReconnection that got past the budget test returns false
\* in this step: task i ends, at a step of the body, with false
ReturnsFalse(i) ==
  /\ i \in 1..Len(tasks) /\ tasks' = Remove(tasks, i)
  /\ trace'.lastResult.value = "false"
  /\ trace'.lastResult.at \in {"ensurePineTime", "connect", "discoverCharacteristics"}

\* a call of attemptReconnection returns true in this step
ReturnsTrue ==
  /\ Len(tasks') < Len(tasks)
  /\ trace'.lastResult = [at |-> "return", value |-> "true"]

\* C27 (as claimed): a call of attemptReconnection that returns false after
\* the budget test leaves connectionRetryCount one higher than the call found
\* it, so at one or more, and the counter goes back to zero only in an attempt
\* that succeeds as a whole, that is in the step in which a call returns true.
C27_FailureCounted ==
  [][ /\ \A i \in 1..MaxConcurrent : ReturnsFalse(i) => connectionRetryCount' >= 1
      /\ (connectionRetryCount > 0 /\ connectionRetryCount' = 0) => ReturnsTrue
    ]_vars

\* the first session with its motion timer, its keep-alive reads and its
\* disconnect listener, the link lost and found again: the reconnections each
\* of the three starts
NextResume ==
  \/ NextEnv \/ NextStart
  \/ AccelTimerFire
  \/ \E i \in 1..MaxInFlight : AccelReadFailed(i)
  \/ \E i \in 1..MaxInFlight, buf \in StuckPayloads : AccelReadReturn(i, buf)
  \/ \E i \in 1..MaxInFlight : AccelSaveReturn(i)
  \/ NextKeepAlive
  \/ NextReconnection

SpecResume == InitMotion /\ [][NextResume]_vars

\* C28 (as claimed): whichever of the disconnect listener, the keep-alive read
\* and the motion timer has started it, a reconnection that succeeds leaves the
\* session with its counters reset: consecutiveErrors and staleDataCount are
\* both zero when attemptReconnection returns true.
C28_CountersReset ==
  [][ ReturnsTrue => /\ session'.consecutiveErrors = 0
                     /\ session'.staleDataCount = 0 ]_vars

\* C29 (as claimed): within a session the last accepted time of each channel
\* never decreases, whatever the interleaving of the monitors' callbacks and
\* the timers' callbacks, a scheduled read that resolves after a later
\* notification was accepted included.
C29_Monotonic ==
  [][ (session.armed /\ session'.armed /\ session'.sleepRecordId = session.sleepRecordId)
        => /\ session'.lastAccel >= session.lastAccel
           /\ session'.lastHr >= session.lastHr ]_vars

\* the characteristics of the device's motion service, as the device lists them
MotionChars(services) ==
  IF \E i \in 1..Len(services) : SameUuid(services[i].uuid, MOTION_SERVICE_UUID)
  THEN services[CHOOSE i \in 1..Len(services) :
                  /\ SameUuid(services[i].uuid, MOTION_SERVICE_UUID)
                  /\ \A j \in 1..(i - 1) : ~SameUuid(services[j].uuid, MOTION_SERVICE_UUID)
               ].characteristics
  ELSE << >>

IsWritable(c) == c.isWritableWithResponse \/ c.isWritableWithoutResponse

\* a characteristic next to the data one that can be written
IsWritableSibling(c) == IsWritable(c) /\ ~SameUuid(c.uuid, ACCEL_CHAR_UUID)

\* the identifier ends in one of the known suffixes
KnownSuffix(c) == c.uuid.tail \in {"3002", "3003", "3004"}

\* chars[j] is the first characteristic with P
IsFirst(chars, j, P(_)) ==
  /\ j \in 1..Len(chars) /\ P(chars[j])
  /\ \A k \in 1..(j - 1) : ~P(chars[k])

\* a writable sibling with a known suffix
IsKnownControl(c) == IsWritableSibling(c) /\ KnownSuffix(c)

\* what discovery is to give for the control characteristic on this device
ChosenControl(services) ==
  LET chars == MotionChars(services) IN
    IF \E j \in 1..Len(chars) : IsKnownControl(chars[j])
    THEN chars[CHOOSE j \in 1..Len(chars) : IsFirst(chars, j, IsKnownControl)]
    ELSE Undefined

\* C30 (amended): the motion control characteristic discovery returns is the
\* first characteristic of the motion service that is not the data
\* characteristic, has a write capability and has an identifier ending in 3002,
\* 3003 or 3004; without such a characteristic it returns none.  What it
\* returns is never the data characteristic and never lacks a write
\* capability, and it is what the session that is armed holds.
C30_ControlChannel ==
  /\ RequiredPresent(gatt) =>
       LET ctl == discoverCharacteristics(gatt, TRUE).accelCtl IN
         /\ ctl = ChosenControl(gatt)
         /\ ctl # Undefined => IsWritable(ctl) /\ ~SameUuid(ctl.uuid, ACCEL_CHAR_UUID)
  /\ startCall.result = "resolved" => session.currentAccelCtl = ChosenControl(gatt)

\* a session armed with the control characteristic 3002, which the watch lists
\* after a writable sibling of another suffix
C30_Witness ==
  /\ startCall.result = "resolved" /\ session.armed
  /\ session.currentAccelCtl # Undefined
  /\ LET chars == MotionChars(gatt) IN
       /\ Len(chars) >= 2
       /\ IsWritableSibling(chars[1]) /\ ~KnownSuffix(chars[1])
       /\ session.currentAccelCtl = chars[2]

\* C30 (as claimed): whenever the motion service holds a writable sibling of
\* the data characteristic, discovery returns the first such sibling as the
\* control characteristic, its suffix known or not.
C30_FirstWritableSibling ==
  RequiredPresent(gatt) =>
    LET chars == MotionChars(gatt)
        ctl == discoverCharacteristics(gatt, TRUE).accelCtl
    IN (\E j \in 1..Len(chars) : IsWritableSibling(chars[j]))
         => /\ ctl # Undefined
            /\ ctl = chars[CHOOSE j \in 1..Len(chars) : IsFirst(chars, j, IsWritableSibling)]

\* C31 (as claimed): at most one call of attemptReconnection is between its
\* budget test and its return at any time, and while one is, no trigger takes
\* a further unit of the retry budget.
C31_OneAttempt ==
  [][ /\ Len(tasks') <= 1
      /\ tasks # << >> => connectionRetryCount' <= connectionRetryCount ]_vars

\* cleanup() of the session has run
CleanedUp == session.sleepRecordId # 0 /\ ~session.armed

\* a call of attemptReconnection in progress does I/O on the peripheral in this
\* step: connect(), the rediscovery, the activation writes
ReconnectionIo ==
  \E i \in 1..MaxConcurrent : TaskConnect(i) \/ TaskDiscover(i) \/ TaskEnable(i)

\* C32 (as claimed): once cleanup has run, the stopped session has no further
\* effect: no sample is inserted, no call of attemptReconnection starts or goes
\* on to the peripheral, and the retry counter does not change, whatever was
\* in flight when cleanup ran.
C32_NoEffectAfterCleanup ==
  [][ CleanedUp =>
        /\ raw_sensor_data' = raw_sensor_data
        /\ connectionRetryCount' = connectionRetryCount
        /\ Len(tasks') <= Len(tasks)
        /\ ~ReconnectionIo ]_vars

\* C34: the retry counter stays within 0 .. MAX_RETRY_ATTEMPTS in every state,
\* with calls of attemptReconnection in progress at the same time and with
\* cleanup running between their steps.
C34_CounterInRange ==
  connectionRetryCount \in 0..MAX_RETRY_ATTEMPTS

\* the budget used up while two calls of attemptReconnection are in progress
C34_Witness ==
  /\ connectionRetryCount = MAX_RETRY_ATTEMPTS
  /\ Len(tasks) = MaxConcurrent

\* C33 (as claimed): one sampling session at a time: no call of startCollection
\* begins while another is in progress or its session collects, no two
\* sessions are armed on the watch together, and every armed session's cleanup
\* is the one HomeScreen holds.
C33_OneSession ==
  /\ ~(startCall.pc # "idle" /\ second.pc # "idle")
  /\ ~(session.armed /\ second.armed)
  /\ session.armed => cleanupRef
  /\ second.armed => second.held

\* a keep-alive callback takes a step: it is called, or its read comes back
KeepAliveStep == keepCbs' # keepCbs

\* the counters and the pacing times of the session
Counters(s) ==
  << s.lastHr, s.lastAccel, s.consecutiveErrors, s.staleDataCount, s.lastAccelData >>

\* C35: a keep-alive callback inserts no sample and leaves the session's
\* pacing times and its error and stale counters as they are; the one thing it
\* may do is call attemptReconnection when its read has failed, which starts
\* an attempt and takes one unit of the budget, or returns at once when the
\* budget is used up.  The attempt it has started, when it succeeds, replaces
\* the session's device and characteristics and touches no counter either.
C35_KeepAliveOnlyProbes ==
  [][ /\ KeepAliveStep =>
           /\ raw_sensor_data' = raw_sensor_data
           /\ sleep_records' = sleep_records
           /\ session' = session
           /\ \/ tasks' = tasks /\ connectionRetryCount' = connectionRetryCount
              \/ /\ Len(keepCbs') < Len(keepCbs)
                 /\ BudgetLeft
                 /\ tasks' = Append(tasks, [pc |-> "backoff", trigger |-> "keepAlive"])
                 /\ connectionRetryCount' = connectionRetryCount + 1
      /\ \A i \in 1..MaxConcurrent :
           (TaskEnable(i) /\ tasks[i].trigger = "keepAlive") =>
             /\ Counters(session') = Counters(session)
             /\ raw_sensor_data' = raw_sensor_data
    ]_vars

\* a keep-alive read has failed and its reconnection is about to succeed,
\* with failed reads of the motion timer counted
C35_Witness ==
  /\ \E i \in 1..Len(tasks) : tasks[i].trigger = "keepAlive" /\ tasks[i].pc = "enable"
  /\ session.consecutiveErrors > 0
  /\ keepCbs = << >>

\* a strictly positive whole number of seconds, in milliseconds
IsInterval(ms) == ms # NaN /\ ms > 0 /\ ms % MsPerSecond = 0

\* C36 (as claimed): whatever texts were saved on the configuration screen,
\* the two intervals a session is started with are strictly positive whole
\* numbers of milliseconds, seconds times 1000: an empty, non-numeric, zero or
\* negative entry never reaches the session.
C36_PositiveIntervals ==
  session.armed => IsInterval(session.accelEveryMs) /\ IsInterval(session.hrEveryMs)

====
